---- MODULE Spec2Model ----
(***************************************************************************)
(* A model of the pinocchio_perpetuals program: the three instruction      *)
(* handlers (initialize_market, initialize_user_account,                   *)
(* process_open_position), the account records they read and write, the   *)
(* risk arithmetic and the oracle adapter.                                  *)
(*                                                                         *)
(* State is the content of the accounts the handlers touch.  A handler     *)
(* works on the account buffers in place (RefMut): what it has written     *)
(* when it returns is what the buffers hold, whether it returns Ok or Err. *)
(* Nothing in the program restores a buffer on an error path; discarding   *)
(* the writes of a failed instruction is left to the host ledger.          *)
(*                                                                         *)
(* Integers are modelled at a reduced width: u64 is 0..U64_MAX with        *)
(* U64_MAX = 2^U64Bits - 1, i128 is I128_MIN..I128_MAX.  Checked           *)
(* operations fail exactly when the exact result leaves the range, and a   *)
(* cast `as u64` keeps the low U64Bits bits.                               *)
(***************************************************************************)
EXTENDS Integers, Sequences, FiniteSets, TLC

\* ------------------------------------------------------------------------
\* Integer widths
\* ------------------------------------------------------------------------

\* Width of the modelled u64.
U64Bits == 20

U64_MAX == 2^U64Bits - 1

\* The modelled i128 is eight bits wider than the modelled u64.
I128_MAX == 2^(U64Bits + 8) - 1

I128_MIN == 0 - I128_MAX - 1

U64 == 0..U64_MAX

\* Option<u64>: Some(v) / None.
Some(v) == [some |-> TRUE, v |-> v]

None == [some |-> FALSE, v |-> 0]

\* u64::checked_add
checked_add(a, b) == IF a > U64_MAX - b THEN None ELSE Some(a + b)

\* u64::checked_sub
checked_sub(a, b) == IF a < b THEN None ELSE Some(a - b)

\* u64::checked_mul; the product is formed only when it fits.
checked_mul(a, b) ==
    IF a = 0 \/ b = 0 THEN Some(0)
    ELSE IF a > U64_MAX \div b THEN None
    ELSE Some(a * b)

\* u64::checked_div
checked_div(a, b) == IF b = 0 THEN None ELSE Some(a \div b)

\* i128::checked_add
checked_add_i128(a, b) ==
    IF a + b > I128_MAX \/ a + b < I128_MIN THEN None ELSE Some(a + b)

\* i128::abs (the inputs of the model exclude i128::MIN).
Abs(x) == IF x < 0 THEN 0 - x ELSE x

\* `x as u64` for a non-negative i128: the low bits.
AsU64(x) == x % (U64_MAX + 1)

\* `size.abs() as u64`
AbsAsU64(size) == AsU64(Abs(size))

\* ------------------------------------------------------------------------
\* Public keys and derived addresses
\* ------------------------------------------------------------------------

\* A key is [tag, seed]: a wallet or mint is named by its tag and name; a
\* program-derived address is the namespace tag and the seed bytes it was
\* derived from.  Derivation is deterministic and injective in its seeds.
Key(kind, name) == [tag |-> kind, seed |-> <<name>>]

\* Pubkey::default()
DefaultPubkey == [tag |-> "default", seed |-> << >>]

\* u8::to_le_bytes / u64::to_le_bytes: `width` little-endian bytes of n
\* (n < 2^24 in this model, so bytes four and up are zero).
to_le_bytes(n, width) ==
    [i \in 1..width |-> IF i > 3 THEN 0 ELSE (n \div (256^(i - 1))) % 256]

\* pubkey::find_program_address(&[tag, key, bytes], &crate::ID).0
find_program_address(tag, key, bytes) ==
    [tag |-> tag, seed |-> <<key.tag>> \o key.seed \o bytes]

SYSTEM_PROGRAM_ID == Key("program", "system")

TOKEN_PROGRAM_ID == Key("program", "token")

\* ------------------------------------------------------------------------
\* Account records
\* ------------------------------------------------------------------------

\* UserAccount::SIZE
UserAccount_SIZE == 32 + 8 + (10 * 32)

\* Market::SIZE = size_of::<Market>(): the field widths, 8-byte aligned.
Market_SIZE == 8 * ((1 + 1 + 16 + (4 * 32) + (4 * 8) + (3 * 8) + (3 * 8) + 16 + 32 + 1 + 1 + 7) \div 8)

\* Position::SIZE = size_of::<Position>(): the field widths, 8-byte aligned.
Position_SIZE == 8 * ((32 + 32 + 16 + (5 * 8) + 1 + 7) \div 8)

\* Number of slots of UserAccount::open_positions.
RegistryCap == 10

\* Basis-point denominator of the margin and fee computations.
BPS_DENOM == 10000

\* Decimals passed to TransferChecked.
TRANSFER_DECIMALS == 6

\* max_age_seconds passed to get_sol_price_for_trading.
MAX_AGE == 60

\* funding_interval written by initialize_market.
FUNDING_INTERVAL == 28800

\* An account that holds no data (data_is_empty()).
EmptyAccount == [data_len |-> 0]

\* The account stored at address a of store f (a function from addresses to
\* account contents); an address the store does not hold is an empty account.
AccountAt(f, a) == IF a \in DOMAIN f THEN f[a] ELSE EmptyAccount

data_is_empty(acct) == acct.data_len = 0

\* The store f with the account at address a set to acct.
Put(f, a, acct) == (a :> acct) @@ f

\* A Market record written with a margin requirement and a fee rate.
NewMarket_charging(market_id, symbol, mint, vault, max_leverage, authority) ==
    [ data_len           |-> Market_SIZE,
      is_initialized     |-> TRUE,
      market_id          |-> market_id % 256,
      market_symbol      |-> symbol,
      oracle             |-> DefaultPubkey,
      collateral_mint    |-> mint,
      collateral_vault   |-> vault,
      base_oracle        |-> DefaultPubkey,
      initial_margin     |-> 500,
      maintenance_margin |-> 0,
      max_leverage       |-> max_leverage,
      fee_rate           |-> 10,
      funding_rate       |-> 0,
      last_funding_time  |-> 0,
      funding_interval   |-> FUNDING_INTERVAL,
      open_interest_long |-> 0,
      open_interest_short |-> 0,
      total_collateral   |-> 0,
      unrealized_pnl     |-> 0,
      authority          |-> authority ]

\* The Market record as initialize_market writes it.
NewMarket(market_id, symbol, mint, vault, max_leverage, authority) ==
    [ data_len           |-> Market_SIZE,
      is_initialized     |-> TRUE,
      market_id          |-> market_id % 256,
      market_symbol      |-> symbol,
      oracle             |-> DefaultPubkey,
      collateral_mint    |-> mint,
      collateral_vault   |-> vault,
      base_oracle        |-> DefaultPubkey,
      initial_margin     |-> 0,
      maintenance_margin |-> 0,
      max_leverage       |-> max_leverage,
      fee_rate           |-> 0,
      funding_rate       |-> 0,
      last_funding_time  |-> 0,
      funding_interval   |-> FUNDING_INTERVAL,
      open_interest_long |-> 0,
      open_interest_short |-> 0,
      total_collateral   |-> 0,
      unrealized_pnl     |-> 0,
      authority          |-> authority ]

\* The UserAccount record as written right after its creation.
NewUserAccount(owner) ==
    [ data_len       |-> UserAccount_SIZE,
      owner          |-> owner,
      margin_balance |-> 0,
      open_positions |-> [i \in 1..RegistryCap |-> DefaultPubkey] ]

\* A new Position whose last_funding_settlement is left at zero.
NewPosition_unsettled(user, market, size, price, margin, now) ==
    [ data_len                |-> Position_SIZE,
      user                    |-> user,
      market                  |-> market,
      size                    |-> size,
      entry_price             |-> price,
      margin                  |-> margin,
      unrealized_pnl          |-> 0,
      funding_payment         |-> 0,
      last_funding_settlement |-> 0,
      is_active               |-> TRUE ]

\* The Position record as process_open_position writes it on creation.
NewPosition(user, market, size, price, margin, now) ==
    [ data_len                |-> Position_SIZE,
      user                    |-> user,
      market                  |-> market,
      size                    |-> size,
      entry_price             |-> price,
      margin                  |-> margin,
      unrealized_pnl          |-> 0,
      funding_payment         |-> 0,
      last_funding_settlement |-> now,
      is_active               |-> TRUE ]

\* Market::from_account_info_mut / Position::from_account_info_mut
decode_ok(acct, size) == ~(acct.data_len < size)

\* UserAccount::from_account_info_mut
decode_user_ok(acct) == ~(acct.data_len # UserAccount_SIZE)

\* ------------------------------------------------------------------------
\* Oracle adapter (pyth_price.rs)
\* ------------------------------------------------------------------------

\* Result<u64, ProgramError>
Ok(v) == [ok |-> TRUE, v |-> v, err |-> "Ok"]

Err(e) == [ok |-> FALSE, v |-> 0, err |-> e]

\* PriceUpdateV2::LEN
PriceUpdateV2_LEN == 8 + 32 + 2 + 32 + 8 + 8 + 4 + 8 + 8 + 8 + 8 + 8

\* The feed the program trades on (SOL_USD_FEED_ID).
SOL_USD_FEED_ID == "ef0d8b6fda2ceba41da15d4095d1da392a0d2f8ed0c6c7bc0f4cfac8c280b56d"

\* Width of the adapter's signed integers (i64 in the program), scaled down:
\* 10^8 and 10^9 are representable, 10^10 is not.
I64Bits == 31

\* i64::MAX
I64_MAX == 2^(I64Bits - 1) - 1

\* The largest bit pattern of the width (u64::MAX of the `as u64` cast).
I64_PATTERN_MAX == I64_MAX + I64_MAX + 1

\* The bit pattern of a signed value (two's complement; also `x as u64`).
BitsOf(x) == IF x < 0 THEN (x + I64_PATTERN_MAX) + 1 ELSE x

\* The signed value of a bit pattern.
SignedOf(r) == IF r > I64_MAX THEN (r - I64_PATTERN_MAX) - 1 ELSE r

\* Addition of bit patterns modulo 2^I64Bits.
AddBits(a, b) ==
    IF a > I64_PATTERN_MAX - b THEN (a - (I64_PATTERN_MAX - b)) - 1 ELSE a + b

\* Multiplication of bit patterns modulo 2^I64Bits, by doubling.
RECURSIVE MulBits(_, _)
MulBits(a, b) ==
    IF b = 0 THEN 0
    ELSE LET half    == MulBits(a, b \div 2)
             doubled == AddBits(half, half)
         IN  IF b % 2 = 1 THEN AddBits(doubled, a) ELSE doubled

\* i64::wrapping_mul: what `a * b` leaves when overflow is not trapped.  The
\* operands are bound to their values before the multiplication runs.
wrapping_mul(a, b) ==
    CHOOSE v \in { SignedOf(MulBits(x, y)) : x \in {BitsOf(a)}, y \in {BitsOf(b)} } :
        TRUE

\* Whether the exact product a * b leaves the i64 range.
mul_overflows(a, b) ==
    IF a = 0 \/ b = 0 THEN FALSE
    ELSE IF (a < 0) = (b < 0) THEN Abs(a) > I64_MAX \div Abs(b)
    ELSE Abs(a) > (I64_MAX + 1) \div Abs(b)

\* `a / b` on i64 for b # 0: the quotient truncated toward zero.
DivI64(a, b) ==
    IF (a < 0) = (b < 0) THEN Abs(a) \div Abs(b)
    ELSE 0 - (Abs(a) \div Abs(b))

\* The largest power of ten the price updates of the model ask for.
MaxPower == 10

\* 10^k on i64 when overflow is not trapped: the wrapped power.
RECURSIVE WrappedPower(_)
WrappedPower(k) ==
    IF k = 0 THEN 1
    ELSE CHOOSE v \in { wrapping_mul(lower, 10) : lower \in {WrappedPower(k - 1)} } :
             TRUE

\* Whether the exact power 10^k leaves the i64 range.
RECURSIVE PowerOverflows(_)
PowerOverflows(k) ==
    IF k = 0 THEN FALSE
    ELSE PowerOverflows(k - 1) \/ mul_overflows(WrappedPower(k - 1), 10)

\* The powers of ten, computed once.
PowersOfTen ==
    [k \in 0..MaxPower |->
        [v |-> WrappedPower(k), overflowed |-> PowerOverflows(k)]]

\* 10_i64.pow(k) when overflow is not trapped.
Pow10(k) == PowersOfTen[k].v

\* Whether 10_i64.pow(k) overflows (and aborts when overflow is trapped).
pow_overflows(k) == PowersOfTen[k].overflowed

\* 100_000_000i64
TARGET_SCALE == 100000000

\* The outcome of unchecked i64 arithmetic: a build with overflow checks
\* aborts the instruction when a step overflowed, a build without them
\* carries on with the wrapped value.
Unchecked(overflow_checks, overflowed, v) ==
    IF overflowed /\ overflow_checks THEN Err("Panic")
    ELSE Ok(BitsOf(v))

\* i64::saturating_sub on timestamps (no saturation inside the model's range).
saturating_sub(a, b) == a - b

\* get_price_no_older_than that rejects a price of exactly max_age.
get_price_no_older_than_strict(feed, now, max_age) ==
    IF feed.feed_id # SOL_USD_FEED_ID THEN Err("InvalidAccountData")
    ELSE IF saturating_sub(now, feed.publish_time) >= max_age
         THEN Err("InvalidAccountData")
    ELSE Ok(0)

\* PriceUpdateV2::get_price_no_older_than: the feed id must match and the
\* price must not be older than max_age.
get_price_no_older_than(feed, now, max_age) ==
    IF feed.feed_id # SOL_USD_FEED_ID THEN Err("InvalidAccountData")
    ELSE IF saturating_sub(now, feed.publish_time) > max_age
         THEN Err("InvalidAccountData")
    ELSE Ok(0)

\* normalize_pyth_price: rescale price * 10^exponent to 8 fractional digits.
\* The arithmetic is plain i64 `pow`, `*` and `/` followed by `as u64`.
normalize_pyth_price(price) ==
    IF price.price <= 0 THEN Err("InvalidAccountData")
    ELSE IF price.exponent < 0
         THEN LET scale_factor == Pow10(0 - price.exponent)
                  target_scale == TARGET_SCALE
              IN  IF pow_overflows(0 - price.exponent) /\ price.overflow_checks
                  THEN Err("Panic")
                  ELSE IF scale_factor = target_scale
                       THEN Ok(BitsOf(price.price))
                  ELSE IF scale_factor > target_scale
                       THEN Ok(BitsOf(DivI64(price.price,
                                   DivI64(scale_factor, target_scale))))
                  ELSE IF scale_factor = 0 THEN Err("Panic")
                  ELSE LET factor == DivI64(target_scale, scale_factor)
                       IN  Unchecked(price.overflow_checks,
                                     mul_overflows(price.price, factor),
                                     wrapping_mul(price.price, factor))
    ELSE LET multiplier == Pow10(price.exponent)
             scaled     == wrapping_mul(price.price, multiplier)
         IN  Unchecked(price.overflow_checks,
                       pow_overflows(price.exponent)
                           \/ mul_overflows(price.price, multiplier)
                           \/ mul_overflows(scaled, TARGET_SCALE),
                       wrapping_mul(scaled, TARGET_SCALE))

\* get_sol_price_for_trading
get_sol_price_for_trading(feed, now, max_age_seconds) ==
    LET sol_price == get_price_no_older_than(feed, now, max_age_seconds)
    IN  IF feed.data_len < PriceUpdateV2_LEN THEN Err("InvalidAccountData")
        ELSE IF ~sol_price.ok THEN Err(sol_price.err)
        ELSE normalize_pyth_price(feed)

\* ------------------------------------------------------------------------
\* Margin and risk calculator (open_position.rs)
\* ------------------------------------------------------------------------

\* Option::ok_or(ProgramError::ArithmeticOverflow)
ok_or_overflow(opt) == IF opt.some THEN Ok(opt.v) ELSE Err("ArithmeticOverflow")

\* a.and_then(|v| v.checked_div(d))
and_then_div(opt, d) == IF opt.some THEN checked_div(opt.v, d) ELSE None

calculate_position_value(size, price) ==
    ok_or_overflow(checked_mul(AbsAsU64(size), price))

calculate_required_margin(position_value, initial_margin_bps) ==
    ok_or_overflow(and_then_div(checked_mul(position_value, initial_margin_bps), BPS_DENOM))

\* A leverage that divides the margin by the notional.
calculate_leverage_inverted(position_value, margin) ==
    IF position_value = 0 THEN Err("InvalidArgument")
    ELSE ok_or_overflow(checked_div(margin, position_value))

calculate_leverage(position_value, margin) ==
    IF margin = 0 THEN Err("InvalidArgument")
    ELSE ok_or_overflow(checked_div(position_value, margin))

calculate_trading_fee(position_value, fee_rate_bps) ==
    ok_or_overflow(and_then_div(checked_mul(position_value, fee_rate_bps), BPS_DENOM))

\* ------------------------------------------------------------------------
\* Position lifecycle (open_position.rs)
\* ------------------------------------------------------------------------

SameDirection(current_size, additional_size) ==
    (current_size > 0 /\ additional_size > 0) \/ (current_size < 0 /\ additional_size < 0)

OppositeDirection(current_size, additional_size) ==
    (current_size > 0 /\ additional_size < 0) \/ (current_size < 0 /\ additional_size > 0)

\* The last statement of update_existing_position: margin accumulates; an
\* overflow returns Err with the fields written so far left in place.
\* A margin update that keeps only the last deposit.
AccumulateMargin_overwriting(position, additional_margin) ==
    [pos |-> [position EXCEPT !.margin = additional_margin], err |-> "Ok"]

AccumulateMargin(position, additional_margin) ==
    LET m == checked_add(position.margin, additional_margin)
    IN  IF m.some THEN [pos |-> [position EXCEPT !.margin = m.v], err |-> "Ok"]
        ELSE [pos |-> position, err |-> "ArithmeticOverflow"]

\* The same-direction branch: weighted-average entry price, then the size.
MergeSameDirection(position, additional_size, current_price, new_total_size) ==
    LET current_notional    == checked_mul(AbsAsU64(position.size), position.entry_price)
        additional_notional == checked_mul(AbsAsU64(additional_size), current_price)
        total_notional      == IF current_notional.some /\ additional_notional.some
                               THEN checked_add(current_notional.v, additional_notional.v)
                               ELSE None
        entry               == IF total_notional.some
                               THEN checked_div(total_notional.v, AbsAsU64(new_total_size))
                               ELSE None
    IN  IF ~total_notional.some THEN [pos |-> position, err |-> "ArithmeticOverflow"]
        ELSE IF new_total_size # 0 /\ ~entry.some
             THEN [pos |-> position, err |-> "ArithmeticOverflow"]
        ELSE [pos |-> [position EXCEPT
                         !.entry_price = IF new_total_size # 0 THEN entry.v ELSE @,
                         !.size = new_total_size],
              err |-> "Ok"]

\* A netting that never resets the entry price.
NetOppositeDirection_keeping_entry(position, current_price, new_total_size) ==
    [position EXCEPT
       !.size = new_total_size,
       !.is_active = IF new_total_size = 0 THEN FALSE ELSE @]

\* A netting that takes the current price as entry price on every transition.
NetOppositeDirection_always_repricing(position, current_price, new_total_size) ==
    [position EXCEPT
       !.size = new_total_size,
       !.is_active = IF new_total_size = 0 THEN FALSE ELSE @,
       !.entry_price = current_price]

\* A netting that leaves a flattened position active.
NetOppositeDirection_staying_active(position, current_price, new_total_size) ==
    [position EXCEPT
       !.size = new_total_size,
       !.entry_price = IF new_total_size # 0 /\ OppositeDirection(position.size, new_total_size)
                       THEN current_price ELSE @]

\* The opposite-direction branch: partial close, flatten or flip.
NetOppositeDirection(position, current_price, new_total_size) ==
    [position EXCEPT
       !.size = new_total_size,
       !.is_active = IF new_total_size = 0 THEN FALSE ELSE @,
       !.entry_price = IF new_total_size # 0 /\ OppositeDirection(position.size, new_total_size)
                       THEN current_price ELSE @]

\* update_existing_position that adds the deposit to the margin of an
\* inactive position instead of replacing it.
update_existing_position_keeping_margin(position, additional_size, current_price, additional_margin, current_time) ==
    IF ~position.is_active
    THEN AccumulateMargin([position EXCEPT !.size = additional_size,
                                           !.entry_price = current_price,
                                           !.is_active = TRUE,
                                           !.last_funding_settlement = current_time],
                          additional_margin)
    ELSE LET new_total == checked_add_i128(position.size, additional_size)
         IN  IF ~new_total.some THEN [pos |-> position, err |-> "ArithmeticOverflow"]
             ELSE IF SameDirection(position.size, additional_size)
                  THEN LET merged == MergeSameDirection(position, additional_size,
                                                        current_price, new_total.v)
                       IN  IF merged.err # "Ok" THEN merged
                           ELSE AccumulateMargin(merged.pos, additional_margin)
             ELSE IF OppositeDirection(position.size, additional_size)
                  THEN AccumulateMargin(
                          NetOppositeDirection(position, current_price, new_total.v),
                          additional_margin)
             ELSE AccumulateMargin(position, additional_margin)

\* update_existing_position: [pos, err], pos being the record as the call
\* leaves it (also when it returns Err).
update_existing_position(position, additional_size, current_price, additional_margin, current_time) ==
    IF ~position.is_active
    THEN [pos |-> [position EXCEPT !.size = additional_size,
                                   !.entry_price = current_price,
                                   !.margin = additional_margin,
                                   !.is_active = TRUE,
                                   !.last_funding_settlement = current_time],
          err |-> "Ok"]
    ELSE LET new_total == checked_add_i128(position.size, additional_size)
         IN  IF ~new_total.some THEN [pos |-> position, err |-> "ArithmeticOverflow"]
             ELSE IF SameDirection(position.size, additional_size)
                  THEN LET merged == MergeSameDirection(position, additional_size,
                                                        current_price, new_total.v)
                       IN  IF merged.err # "Ok" THEN merged
                           ELSE AccumulateMargin(merged.pos, additional_margin)
             ELSE IF OppositeDirection(position.size, additional_size)
                  THEN AccumulateMargin(
                          NetOppositeDirection(position, current_price, new_total.v),
                          additional_margin)
             ELSE AccumulateMargin(position, additional_margin)

\* First index of the registry that holds key, 0 if none.
RECURSIVE SlotOfFrom(_, _, _)
SlotOfFrom(open_positions, key, i) ==
    IF i > Len(open_positions) THEN 0
    ELSE IF open_positions[i] = key THEN i
    ELSE SlotOfFrom(open_positions, key, i + 1)

SlotOf(open_positions, key) == SlotOfFrom(open_positions, key, 1)

\* add_position_to_user: [user, err]
add_position_to_user(user_account, position_key) ==
    IF SlotOf(user_account.open_positions, position_key) # 0
    THEN [user |-> user_account, err |-> "Ok"]
    ELSE IF SlotOf(user_account.open_positions, DefaultPubkey) # 0
         THEN [user |-> [user_account EXCEPT
                           !.open_positions[SlotOf(user_account.open_positions, DefaultPubkey)]
                               = position_key],
               err |-> "Ok"]
    ELSE [user |-> user_account, err |-> "AccountAlreadyInitialized"]

\* ------------------------------------------------------------------------
\* Market accounting (open_position.rs)
\* ------------------------------------------------------------------------

\* The open-interest half of update_market_open_interest.
AddOpenInterest(market, size) ==
    LET abs_size == AbsAsU64(size)
        oi       == IF size > 0 THEN checked_add(market.open_interest_long, abs_size)
                    ELSE checked_add(market.open_interest_short, abs_size)
    IN  IF ~oi.some THEN [market |-> market, err |-> "ArithmeticOverflow"]
        ELSE IF size > 0
             THEN [market |-> [market EXCEPT !.open_interest_long = oi.v], err |-> "Ok"]
        ELSE [market |-> [market EXCEPT !.open_interest_short = oi.v], err |-> "Ok"]

\* The collateral addition written to initial_margin.
AddCollateral_into_initial_margin(market, margin) ==
    LET c == checked_add(market.total_collateral, margin)
    IN  IF c.some THEN [market |-> [market EXCEPT !.initial_margin = c.v], err |-> "Ok"]
        ELSE [market |-> market, err |-> "ArithmeticOverflow"]

\* market.total_collateral = market.total_collateral.checked_add(margin)?
AddCollateral(market, margin) ==
    LET c == checked_add(market.total_collateral, margin)
    IN  IF c.some THEN [market |-> [market EXCEPT !.total_collateral = c.v], err |-> "Ok"]
        ELSE [market |-> market, err |-> "ArithmeticOverflow"]

\* update_market_open_interest: [market, err]
update_market_open_interest(market, size, margin) ==
    LET oi == AddOpenInterest(market, size)
    IN  IF oi.err # "Ok" THEN oi ELSE AddCollateral(oi.market, margin)

\* ------------------------------------------------------------------------
\* Token program (the transfer collaborator)
\* ------------------------------------------------------------------------

\* Decimals of a mint (every mint of the model is a 6-decimal token).
MintDecimals(mint) == TRANSFER_DECIMALS

\* TokenAccount::from_account_info succeeds on the accounts the token store holds.
is_token_account(tokens, a) == a \in DOMAIN tokens

\* TransferChecked { from, to, authority, mint, amount, decimals }.invoke():
\* [tokens, err]; a rejected transfer moves nothing.
TransferChecked(tokens, from, to, authority, mint, amount, decimals) ==
    IF ~is_token_account(tokens, from) \/ ~is_token_account(tokens, to)
    THEN [tokens |-> tokens, err |-> "InvalidAccountData"]
    ELSE IF tokens[from].amount < amount
         THEN [tokens |-> tokens, err |-> "TokenInsufficientFunds"]
    ELSE IF tokens[from].mint # tokens[to].mint \/ tokens[from].mint # mint
         THEN [tokens |-> tokens, err |-> "TokenMintMismatch"]
    ELSE IF decimals # MintDecimals(mint)
         THEN [tokens |-> tokens, err |-> "TokenMintDecimalsMismatch"]
    ELSE IF tokens[from].owner # authority
         THEN [tokens |-> tokens, err |-> "TokenOwnerMismatch"]
    ELSE IF from = to THEN [tokens |-> tokens, err |-> "Ok"]
    ELSE IF tokens[to].amount > U64_MAX - amount
         THEN [tokens |-> tokens, err |-> "TokenOverflow"]
    ELSE [tokens |-> [tokens EXCEPT ![from].amount = @ - amount,
                                    ![to].amount = @ + amount],
          err |-> "Ok"]

\* ------------------------------------------------------------------------
\* process_open_position
\* ------------------------------------------------------------------------

\* The outcome of a handler: the account stores as it leaves them, the
\* error kind ("Ok" on success) and the check or step that failed.
Out(S, kind, at) == [s |-> S, kind |-> kind, at |-> at]

Pass == <<"Ok", "">>

\* The four addresses process_open_position derives.
open_market_pda(ix) ==
    find_program_address("market_account", ix.market_authority, to_le_bytes(ix.market_id, 1))

open_user_pda(ix) == find_program_address("user_account", ix.user, << >>)

open_position_pda(ix) ==
    find_program_address("position", ix.user, to_le_bytes(ix.market_id, 1))

open_vault_pda(ix) ==
    find_program_address("collateral_vault", ix.collateral_mint, to_le_bytes(ix.market_id, 1))

\* Basic checks that let a zero size delta through.
basic_checks_accepting_zero_size(ix) ==
    IF ~ix.user_is_signer THEN <<"MissingRequiredSignature", "signer">>
    ELSE IF ix.system_program # SYSTEM_PROGRAM_ID THEN <<"InvalidAccountData", "system_program">>
    ELSE IF ix.token_program # TOKEN_PROGRAM_ID THEN <<"InvalidAccountData", "token_program">>
    ELSE IF ix.data_len < 25 THEN <<"InvalidInstructionData", "payload_length">>
    ELSE IF ix.user_mint # ix.collateral_mint THEN <<"InvalidAccountData", "mint_equality">>
    ELSE Pass

\* Basic checks whose zero test reads margin_amount instead of size.
basic_checks_testing_margin_amount(ix) ==
    IF ~ix.user_is_signer THEN <<"MissingRequiredSignature", "signer">>
    ELSE IF ix.system_program # SYSTEM_PROGRAM_ID THEN <<"InvalidAccountData", "system_program">>
    ELSE IF ix.token_program # TOKEN_PROGRAM_ID THEN <<"InvalidAccountData", "token_program">>
    ELSE IF ix.data_len < 25 THEN <<"InvalidInstructionData", "payload_length">>
    ELSE IF ix.user_mint # ix.collateral_mint THEN <<"InvalidAccountData", "mint_equality">>
    ELSE IF ix.margin_amount = 0 THEN <<"InvalidInstructionData", "zero_size">>
    ELSE Pass

\* Basic checks and instruction parsing.
basic_checks(ix) ==
    IF ~ix.user_is_signer THEN <<"MissingRequiredSignature", "signer">>
    ELSE IF ix.system_program # SYSTEM_PROGRAM_ID THEN <<"InvalidAccountData", "system_program">>
    ELSE IF ix.token_program # TOKEN_PROGRAM_ID THEN <<"InvalidAccountData", "token_program">>
    ELSE IF ix.data_len < 25 THEN <<"InvalidInstructionData", "payload_length">>
    ELSE IF ix.user_mint # ix.collateral_mint THEN <<"InvalidAccountData", "mint_equality">>
    ELSE IF ix.size = 0 THEN <<"InvalidInstructionData", "zero_size">>
    ELSE Pass

\* PDA checks that trust the position account supplied.
pda_checks_trusting_position(ix) ==
    IF ix.market_account # open_market_pda(ix) THEN <<"InvalidAccountData", "market_pda">>
    ELSE IF ix.user_account # open_user_pda(ix) THEN <<"InvalidAccountData", "user_pda">>
    ELSE IF ix.collateral_vault # open_vault_pda(ix) THEN <<"InvalidSeeds", "vault_pda">>
    ELSE Pass

\* Derive and check the four addresses.
pda_checks(ix) ==
    IF ix.market_account # open_market_pda(ix) THEN <<"InvalidAccountData", "market_pda">>
    ELSE IF ix.user_account # open_user_pda(ix) THEN <<"InvalidAccountData", "user_pda">>
    ELSE IF ix.user_position_account # open_position_pda(ix)
         THEN <<"InvalidAccountData", "position_pda">>
    ELSE IF ix.collateral_vault # open_vault_pda(ix) THEN <<"InvalidSeeds", "vault_pda">>
    ELSE Pass

\* Market load that does not test is_initialized.
market_checks_ignoring_flag(market, ix) ==
    IF ~decode_ok(market, Market_SIZE) THEN <<"InvalidAccountData", "market_layout">>
    ELSE IF market.authority # ix.market_authority THEN <<"InvalidAccountData", "market_authority">>
    ELSE IF market.collateral_vault # ix.collateral_vault
         THEN <<"InvalidAccountData", "market_vault">>
    ELSE IF market.collateral_mint # ix.collateral_mint
         THEN <<"InvalidAccountData", "market_mint">>
    ELSE Pass

\* Load the market and compare it with the accounts supplied.
market_checks(market, ix) ==
    IF ~decode_ok(market, Market_SIZE) THEN <<"InvalidAccountData", "market_layout">>
    ELSE IF ~market.is_initialized THEN <<"UninitializedAccount", "market_initialized">>
    ELSE IF market.authority # ix.market_authority THEN <<"InvalidAccountData", "market_authority">>
    ELSE IF market.collateral_vault # ix.collateral_vault
         THEN <<"InvalidAccountData", "market_vault">>
    ELSE IF market.collateral_mint # ix.collateral_mint
         THEN <<"InvalidAccountData", "market_mint">>
    ELSE Pass

\* Token account validations.
token_account_checks(tokens, ix) ==
    IF ~is_token_account(tokens, ix.user_token_account)
    THEN <<"InvalidAccountData", "user_token_account">>
    ELSE IF tokens[ix.user_token_account].owner # ix.user
            \/ tokens[ix.user_token_account].mint # ix.collateral_mint
         THEN <<"InvalidAccountData", "user_token_account">>
    ELSE IF ~is_token_account(tokens, ix.collateral_vault)
         THEN <<"InvalidAccountData", "vault_token_account">>
    ELSE IF tokens[ix.collateral_vault].mint # ix.collateral_mint
         THEN <<"InvalidAccountData", "vault_token_account">>
    ELSE Pass

\* The oracle read of process_open_position.
current_price_of(ix) == get_sol_price_for_trading(ix.feed, ix.now, MAX_AGE)

position_value_of(ix) == calculate_position_value(ix.size, current_price_of(ix).v)

trading_fee_of(market, ix) == calculate_trading_fee(position_value_of(ix).v, market.fee_rate)

\* Notional and margin checks, leverage check, fee calculation.
risk_checks(market, ix) ==
    LET position_value  == position_value_of(ix)
        required_margin == calculate_required_margin(position_value.v, market.initial_margin)
        leverage        == calculate_leverage(position_value.v, ix.margin_amount)
        trading_fee     == trading_fee_of(market, ix)
    IN  IF ~position_value.ok THEN <<position_value.err, "position_value">>
        ELSE IF ~required_margin.ok THEN <<required_margin.err, "required_margin">>
        ELSE IF ix.margin_amount < required_margin.v THEN <<"InsufficientFunds", "margin">>
        ELSE IF ~leverage.ok THEN <<leverage.err, "leverage_value">>
        ELSE IF leverage.v > market.max_leverage THEN <<"InvalidInstructionData", "leverage">>
        ELSE IF ~trading_fee.ok THEN <<trading_fee.err, "trading_fee">>
        ELSE IF ~checked_add(ix.margin_amount, trading_fee.v).some
             THEN <<"ArithmeticOverflow", "total_required">>
        ELSE Pass

\* Everything process_open_position checks before its first write, in order.
validate(S, ix) ==
    LET basic  == basic_checks(ix)
        pdas   == pda_checks(ix)
        market == market_checks(AccountAt(S.markets, ix.market_account), ix)
        token  == token_account_checks(S.tokens, ix)
        price  == current_price_of(ix)
    IN  IF basic # Pass THEN basic
        ELSE IF pdas # Pass THEN pdas
        ELSE IF market # Pass THEN market
        ELSE IF token # Pass THEN token
        ELSE IF ~price.ok THEN <<price.err, "oracle">>
        ELSE risk_checks(S.markets[ix.market_account], ix)

\* ensure_user whose owner test compares with the market authority.
ensure_user_owner_is_authority(S, ix) ==
    LET acct == AccountAt(S.users, ix.user_account)
        S1   == [S EXCEPT !.users = Put(@, ix.user_account, NewUserAccount(ix.user))]
    IN  IF data_is_empty(acct)
        THEN IF ~ix.create_user_ok THEN Out(S, "CreateAccountFailed", "create_user")
             ELSE IF ix.user # ix.market_authority
                  THEN Out(S1, "InvalidAccountData", "user_owner")
             ELSE Out(S1, "Ok", "")
        ELSE IF ~decode_user_ok(acct) THEN Out(S, "InvalidAccountData", "user_layout")
        ELSE IF acct.owner # ix.market_authority THEN Out(S, "InvalidAccountData", "user_owner")
        ELSE Out(S, "Ok", "")

\* Ensure the user account exists: create it when its data is empty (the
\* account-creation collaborator answers ix.create_user_ok), then check its owner.
ensure_user(S, ix) ==
    LET acct == AccountAt(S.users, ix.user_account)
    IN  IF data_is_empty(acct)
        THEN IF ~ix.create_user_ok THEN Out(S, "CreateAccountFailed", "create_user")
             ELSE Out([S EXCEPT !.users = Put(@, ix.user_account, NewUserAccount(ix.user))],
                      "Ok", "")
        ELSE IF ~decode_user_ok(acct) THEN Out(S, "InvalidAccountData", "user_layout")
        ELSE IF acct.owner # ix.user THEN Out(S, "InvalidAccountData", "user_owner")
        ELSE Out(S, "Ok", "")

\* Transfer the margin from the user's token account to the vault.
transfer_margin(S, ix) ==
    LET t == TransferChecked(S.tokens, ix.user_token_account, ix.collateral_vault, ix.user,
                             ix.collateral_mint, ix.margin_amount, TRANSFER_DECIMALS)
    IN  IF t.err # "Ok" THEN Out(S, t.err, "transfer")
        ELSE Out([S EXCEPT !.tokens = t.tokens], "Ok", "")

\* Credit the margin to margin_balance, then deduct the fee.
settle_balance(S, ix, trading_fee) ==
    LET credited == checked_add(S.users[ix.user_account].margin_balance, ix.margin_amount)
        S1       == [S EXCEPT !.users[ix.user_account].margin_balance = credited.v]
    IN  IF ~credited.some THEN Out(S, "ArithmeticOverflow", "margin_balance")
        ELSE IF credited.v < trading_fee THEN Out(S1, "InsufficientFunds", "fee")
        ELSE Out([S1 EXCEPT !.users[ix.user_account].margin_balance = @ - trading_fee],
                 "Ok", "")

\* Create the position, or update the existing one.
create_or_update_position(S, ix, current_price) ==
    LET acct == AccountAt(S.positions, ix.user_position_account)
    IN  IF data_is_empty(acct)
        THEN IF ~ix.create_position_ok THEN Out(S, "CreateAccountFailed", "create_position")
             ELSE LET S1 == [S EXCEPT !.positions =
                                Put(@, ix.user_position_account,
                                    NewPosition(ix.user, ix.market_account, ix.size,
                                                current_price, ix.margin_amount, ix.now))]
                      reg == add_position_to_user(S1.users[ix.user_account],
                                                  ix.user_position_account)
                  IN  IF reg.err # "Ok" THEN Out(S1, reg.err, "registry")
                      ELSE Out([S1 EXCEPT !.users[ix.user_account] = reg.user], "Ok", "")
        ELSE IF ~decode_ok(acct, Position_SIZE) THEN Out(S, "InvalidAccountData", "position_layout")
        ELSE IF acct.user # ix.user THEN Out(S, "InvalidAccountData", "position_owner")
        ELSE LET upd == update_existing_position(acct, ix.size, current_price,
                                                 ix.margin_amount, ix.now)
                 S1  == [S EXCEPT !.positions[ix.user_position_account] = upd.pos]
             IN  IF upd.err # "Ok" THEN Out(S1, upd.err, "position_update")
                 ELSE Out(S1, "Ok", "")

\* Update market accounting: total_collateral, then update_market_open_interest.
market_accounting(S, ix) ==
    LET first  == AddCollateral(S.markets[ix.market_account], ix.margin_amount)
        second == update_market_open_interest(first.market, ix.size, ix.margin_amount)
    IN  IF first.err # "Ok" THEN Out(S, first.err, "total_collateral")
        ELSE Out([S EXCEPT !.markets[ix.market_account] = second.market],
                 second.err,
                 IF second.err = "Ok" THEN ""
                 ELSE IF AddOpenInterest(first.market, ix.size).err # "Ok" THEN "open_interest"
                 ELSE "total_collateral_again")

\* process_open_position: the stores as the handler leaves them and its result.
process_open_position(S, ix) ==
    LET v == validate(S, ix)
    IN  IF v # Pass THEN Out(S, v[1], v[2])
        ELSE
    LET a == ensure_user(S, ix)
    IN  IF a.kind # "Ok" THEN a
        ELSE
    LET b == transfer_margin(a.s, ix)
    IN  IF b.kind # "Ok" THEN b
        ELSE
    LET c == settle_balance(b.s, ix, trading_fee_of(S.markets[ix.market_account], ix).v)
    IN  IF c.kind # "Ok" THEN c
        ELSE
    LET d == create_or_update_position(c.s, ix, current_price_of(ix).v)
    IN  IF d.kind # "Ok" THEN d
        ELSE market_accounting(d.s, ix)

\* ------------------------------------------------------------------------
\* initialize_market
\* ------------------------------------------------------------------------

\* The two addresses initialize_market derives (market_id is a u64 here).
init_market_pda(ix) ==
    find_program_address("market_account", ix.authority, to_le_bytes(ix.market_id, 8))

init_vault_pda(ix) ==
    find_program_address("collateral_vault", ix.collateral_mint, to_le_bytes(ix.market_id, 8))

\* The token account InitializeAccount3 sets up for the vault.
NewVault(mint, owner) == [owner |-> owner, mint |-> mint, amount |-> 0]

\* initialize_market without the test that the market account is empty.
initialize_market_overwriting(S, ix) ==
    IF ~ix.authority_is_signer THEN Out(S, "MissingRequiredSignature", "signer")
    ELSE IF ix.collateral_vault # init_vault_pda(ix) THEN Out(S, "InvalidSeeds", "vault_pda")
    ELSE IF ix.market_account # init_market_pda(ix) THEN Out(S, "InvalidSeeds", "market_pda")
    ELSE IF ~ix.create_market_ok THEN Out(S, "CreateAccountFailed", "create_market")
    ELSE LET S1 == [S EXCEPT !.markets =
                       Put(@, ix.market_account,
                           NewMarket(ix.market_id, ix.market_symbol, ix.collateral_mint,
                                     ix.collateral_vault, ix.max_leverage, ix.authority))]
         IN  IF is_token_account(S1.tokens, ix.collateral_vault)
             THEN Out(S1, "AccountAlreadyInitialized", "vault_exists")
             ELSE IF ~ix.create_vault_ok THEN Out(S1, "CreateAccountFailed", "create_vault")
             ELSE Out([S1 EXCEPT !.tokens =
                          Put(@, ix.collateral_vault,
                              NewVault(ix.collateral_mint, init_market_pda(ix)))],
                      "Ok", "")

\* initialize_market: the stores as the handler leaves them and its result.
initialize_market(S, ix) ==
    IF ~ix.authority_is_signer THEN Out(S, "MissingRequiredSignature", "signer")
    ELSE IF ix.collateral_vault # init_vault_pda(ix) THEN Out(S, "InvalidSeeds", "vault_pda")
    ELSE IF ix.market_account # init_market_pda(ix) THEN Out(S, "InvalidSeeds", "market_pda")
    ELSE IF ~data_is_empty(AccountAt(S.markets, ix.market_account))
         THEN Out(S, "AccountAlreadyInitialized", "market_exists")
    ELSE IF ~ix.create_market_ok THEN Out(S, "CreateAccountFailed", "create_market")
    ELSE LET S1 == [S EXCEPT !.markets =
                       Put(@, ix.market_account,
                           NewMarket(ix.market_id, ix.market_symbol, ix.collateral_mint,
                                     ix.collateral_vault, ix.max_leverage, ix.authority))]
         IN  IF is_token_account(S1.tokens, ix.collateral_vault)
             THEN Out(S1, "AccountAlreadyInitialized", "vault_exists")
             ELSE IF ~ix.create_vault_ok THEN Out(S1, "CreateAccountFailed", "create_vault")
             ELSE Out([S1 EXCEPT !.tokens =
                          Put(@, ix.collateral_vault,
                              NewVault(ix.collateral_mint, init_market_pda(ix)))],
                      "Ok", "")

\* ------------------------------------------------------------------------
\* initialize_user_account
\* ------------------------------------------------------------------------

init_user_pda(ix) == find_program_address("user_account", ix.user, << >>)

\* initialize_user_account: the stores as the handler leaves them and its result.
initialize_user_account(S, ix) ==
    IF ~ix.user_is_signer THEN Out(S, "InvalidAccountData", "signer")
    ELSE IF ix.user_account # init_user_pda(ix) THEN Out(S, "InvalidAccountData", "user_pda")
    ELSE IF data_is_empty(AccountAt(S.users, ix.user_account))
         THEN IF ~ix.create_user_ok THEN Out(S, "CreateAccountFailed", "create_user")
              ELSE Out([S EXCEPT !.users = Put(@, ix.user_account, NewUserAccount(ix.user))],
                       "Ok", "")
    ELSE Out(S, "Ok", "")

\* ------------------------------------------------------------------------
\* State
\* ------------------------------------------------------------------------

VARIABLES
    markets,    \* Market accounts, by address
    users,      \* UserAccount accounts, by address
    positions,  \* Position accounts, by address
    tokens,     \* token accounts (wallet token accounts and vaults), by address
    last,       \* the last instruction processed: its name, input and result
    contributions \* history: per position, what was opened since it was last flat

vars == <<markets, users, positions, tokens, last, contributions>>

records == <<markets, users, positions>>

Stores == [markets |-> markets, users |-> users, positions |-> positions, tokens |-> tokens]

\* An instruction is processed: the stores become what the handler left, and
\* `last` records what was asked and what was returned.
Commit(op, ix, out) ==
    /\ markets' = out.s.markets
    /\ users' = out.s.users
    /\ positions' = out.s.positions
    /\ tokens' = out.s.tokens
    /\ last' = [op |-> op, ix |-> ix, kind |-> out.kind, at |-> out.at]

\* History of a position for the claims about its entry price: the sum of
\* |d| * p and of |d| over the opens and same-direction adds since the
\* position was last flat, the number of those, and whether nothing else
\* (a partial close, a flip) happened since.
NoContribution == [notional |-> 0, size |-> 0, count |-> 0, pure |-> FALSE]

ContributionAfter(before, position, ix, price) ==
    IF data_is_empty(position) \/ ~position.is_active
    THEN [notional |-> Abs(ix.size) * price, size |-> Abs(ix.size), count |-> 1, pure |-> TRUE]
    ELSE IF SameDirection(position.size, ix.size)
         THEN [before EXCEPT !.notional = @ + Abs(ix.size) * price,
                             !.size = @ + Abs(ix.size),
                             !.count = @ + 1]
    ELSE NoContribution

\* One action per instruction of process_instruction.
InitializeMarket(ix) ==
    /\ Commit("initialize_market", ix, initialize_market(Stores, ix))
    /\ UNCHANGED contributions

InitializeUser(ix) ==
    /\ Commit("initialize_user", ix, initialize_user_account(Stores, ix))
    /\ UNCHANGED contributions

OpenPosition(ix) ==
    LET out == process_open_position(Stores, ix)
        p   == ix.user_position_account
    IN  /\ Commit("open_position", ix, out)
        /\ contributions' =
              IF out.kind = "Ok"
              THEN Put(contributions, p,
                       ContributionAfter(IF p \in DOMAIN contributions THEN contributions[p]
                                         ELSE NoContribution,
                                         AccountAt(positions, p), ix, current_price_of(ix).v))
              ELSE contributions

NoInstruction == [op |-> "none", ix |-> [size |-> 0], kind |-> "Ok", at |-> ""]

EmptyStore == [a \in {} |-> EmptyAccount]

\* ------------------------------------------------------------------------
\* The trading environment
\* ------------------------------------------------------------------------

Wallet(name) == Key("wallet", name)

Mint(name) == Key("mint", name)

\* The address of the token account a wallet holds for a mint.
TokenAccountOf(wallet, mint) == [tag |-> "token_account", seed |-> wallet.seed \o mint.seed]

\* The clock of every instruction of the model.
Now == 1000

\* A fresh SOL/USD price update whose exponent is already the target scale.
FreshFeed(price) ==
    [ data_len     |-> PriceUpdateV2_LEN,
      feed_id      |-> SOL_USD_FEED_ID,
      price        |-> price,
      exponent     |-> 0 - 8,
      publish_time |-> Now,
      overflow_checks |-> FALSE ]

\* An open/adjust-position instruction whose accounts are the ones the
\* handler derives for (user, authority, mint, market_id).
OpenIx(user, authority, mint, market_id, size, margin_amount, feed) ==
    [ user                  |-> user,
      user_is_signer        |-> TRUE,
      market_authority      |-> authority,
      collateral_mint       |-> mint,
      user_mint             |-> mint,
      market_account        |-> find_program_address("market_account", authority,
                                                     to_le_bytes(market_id, 1)),
      user_account          |-> find_program_address("user_account", user, << >>),
      collateral_vault      |-> find_program_address("collateral_vault", mint,
                                                     to_le_bytes(market_id, 1)),
      user_token_account    |-> TokenAccountOf(user, mint),
      user_position_account |-> find_program_address("position", user,
                                                     to_le_bytes(market_id, 1)),
      feed                  |-> feed,
      system_program        |-> SYSTEM_PROGRAM_ID,
      token_program         |-> TOKEN_PROGRAM_ID,
      now                   |-> Now,
      data_len              |-> 25,
      market_id             |-> market_id,
      size                  |-> size,
      margin_amount         |-> margin_amount,
      create_user_ok        |-> TRUE,
      create_position_ok    |-> TRUE ]

\* A market record as initialize_market writes it, with risk parameters
\* (initial margin, fee rate in bps) set, stored with its vault at the
\* addresses process_open_position derives for (authority, mint, market_id).
TradableMarket(authority, mint, market_id, initial_margin, max_leverage, fee_rate) ==
    [ NewMarket(market_id, "SOL-PERP", mint,
                find_program_address("collateral_vault", mint, to_le_bytes(market_id, 1)),
                max_leverage, authority)
      EXCEPT !.initial_margin = initial_margin, !.fee_rate = fee_rate ]

MarketAddress(authority, market_id) ==
    find_program_address("market_account", authority, to_le_bytes(market_id, 1))

VaultAddress(mint, market_id) ==
    find_program_address("collateral_vault", mint, to_le_bytes(market_id, 1))

PositionAddress(user, market_id) ==
    find_program_address("position", user, to_le_bytes(market_id, 1))

UserAddress(user) == find_program_address("user_account", user, << >>)

\* Tokens the trader holds at the start.
InitialTokens == 3

\* A size whose magnitude does not fit the modelled u64.
HugeSize == U64_MAX + 3

\* Nonzero size deltas whose magnitude fits the u64, and size deltas of
\* every kind: zero, fitting, and beyond the u64.
FitSizes == {0 - 2, 0 - 1, 1, 2}

Sizes == {0 - 2, 0 - 1, 0, 1, HugeSize}

Margins == {1, 2}

Prices == {1, 4}

MarketIds == {0, 1}

\* Market 0 asks 25% initial margin at 2x; market 1 asks no initial margin,
\* allows 4x and charges a 50% fee.
InitTrading ==
    /\ markets = (MarketAddress(Wallet("a1"), 0) :>
                     TradableMarket(Wallet("a1"), Mint("usdc"), 0, 2500, 2, 0))
              @@ (MarketAddress(Wallet("a1"), 1) :>
                     TradableMarket(Wallet("a1"), Mint("usdc"), 1, 0, 4, 5000))
    /\ users = EmptyStore
    /\ positions = EmptyStore
    /\ tokens = (TokenAccountOf(Wallet("u1"), Mint("usdc")) :>
                     [owner |-> Wallet("u1"), mint |-> Mint("usdc"), amount |-> InitialTokens])
             @@ (VaultAddress(Mint("usdc"), 0) :>
                     NewVault(Mint("usdc"), MarketAddress(Wallet("a1"), 0)))
             @@ (VaultAddress(Mint("usdc"), 1) :>
                     NewVault(Mint("usdc"), MarketAddress(Wallet("a1"), 1)))
    /\ last = NoInstruction
    /\ contributions = EmptyStore

\* The instructions the trader submits: every market, size delta, deposit
\* and price.
TradingInstructions(sizes) ==
    { OpenIx(Wallet("u1"), Wallet("a1"), Mint("usdc"), market_id,
             size, margin_amount, FreshFeed(price)) :
        market_id \in MarketIds, size \in sizes, margin_amount \in Margins, price \in Prices }

OpenInstructions == TradingInstructions(Sizes)

FitOpenInstructions == TradingInstructions(FitSizes)

NextTrading == \E ix \in OpenInstructions : OpenPosition(ix)

NextTradingFit == \E ix \in FitOpenInstructions : OpenPosition(ix)

\* The position-and-margin engine run against tradable markets, with size
\* deltas of every magnitude.
Spec == InitTrading /\ [][NextTrading]_vars

\* The same engine with size deltas that fit the u64.
SpecFit == InitTrading /\ [][NextTradingFit]_vars

\* ------------------------------------------------------------------------
\* The program from an empty ledger
\* ------------------------------------------------------------------------

\* Widths of the market-id seed a client may derive the accounts with:
\* the u8 of process_open_position and the u64 of initialize_market.
SeedWidths == {1, 8}

\* An initialize_market instruction whose market and vault accounts are
\* derived with a market-id seed of `width` bytes.
InitMarketIx(authority, mint, market_id, signer, width) ==
    [ authority           |-> authority,
      authority_is_signer |-> signer,
      collateral_mint     |-> mint,
      market_account      |-> find_program_address("market_account", authority,
                                                   to_le_bytes(market_id, width)),
      collateral_vault    |-> find_program_address("collateral_vault", mint,
                                                   to_le_bytes(market_id, width)),
      market_id           |-> market_id,
      market_symbol       |-> "SOL-PERP",
      max_leverage        |-> 4,
      create_market_ok    |-> TRUE,
      create_vault_ok     |-> TRUE ]

InitUserIx(user, signer) ==
    [ user           |-> user,
      user_is_signer |-> signer,
      user_account   |-> UserAddress(user),
      create_user_ok |-> TRUE ]

\* An open/adjust-position instruction whose market and vault accounts are
\* derived with a market-id seed of `width` bytes.
OpenIxAt(user, authority, mint, market_id, width) ==
    [ OpenIx(user, authority, mint, market_id, 1, 1, FreshFeed(1))
      EXCEPT !.market_account   = find_program_address("market_account", authority,
                                                       to_le_bytes(market_id, width)),
             !.collateral_vault = find_program_address("collateral_vault", mint,
                                                       to_le_bytes(market_id, width)) ]

Authorities == {Wallet("a1"), Wallet("a2")}

InitProgram ==
    /\ markets = EmptyStore
    /\ users = EmptyStore
    /\ positions = EmptyStore
    /\ tokens = (TokenAccountOf(Wallet("u1"), Mint("usdc")) :>
                     [owner |-> Wallet("u1"), mint |-> Mint("usdc"), amount |-> InitialTokens])
    /\ last = NoInstruction
    /\ contributions = EmptyStore

ProgramInitMarketInstructions ==
    { InitMarketIx(authority, Mint("usdc"), market_id, signer, width) :
        authority \in Authorities, market_id \in MarketIds, signer \in BOOLEAN,
        width \in SeedWidths }

ProgramInitUserInstructions == { InitUserIx(Wallet("u1"), signer) : signer \in BOOLEAN }

ProgramOpenInstructions ==
    { OpenIxAt(Wallet("u1"), authority, Mint("usdc"), market_id, width) :
        authority \in Authorities, market_id \in MarketIds, width \in SeedWidths }

NextProgram ==
    \/ \E ix \in ProgramInitMarketInstructions : InitializeMarket(ix)
    \/ \E ix \in ProgramInitUserInstructions : InitializeUser(ix)
    \/ \E ix \in ProgramOpenInstructions : OpenPosition(ix)

\* The three instructions of the program, from a ledger without any of its
\* accounts.
SpecProgram == InitProgram /\ [][NextProgram]_vars

\* ------------------------------------------------------------------------
\* Two markets with the same numeric id
\* ------------------------------------------------------------------------

\* The markets (authority, mint) of id 0 that the trader uses.
SharedIdMarkets == {<<Wallet("a1"), Mint("usdc")>>, <<Wallet("a2"), Mint("usdt")>>}

InitShared ==
    /\ markets = [a \in {MarketAddress(m[1], 0) : m \in SharedIdMarkets} |->
                     LET m == CHOOSE x \in SharedIdMarkets : MarketAddress(x[1], 0) = a
                     IN  TradableMarket(m[1], m[2], 0, 0, 4, 0)]
    /\ users = EmptyStore
    /\ positions = EmptyStore
    /\ tokens = [a \in {TokenAccountOf(Wallet("u1"), m[2]) : m \in SharedIdMarkets} |->
                    LET m == CHOOSE x \in SharedIdMarkets :
                                 TokenAccountOf(Wallet("u1"), x[2]) = a
                    IN  [owner |-> Wallet("u1"), mint |-> m[2], amount |-> InitialTokens]]
             @@ [a \in {VaultAddress(m[2], 0) : m \in SharedIdMarkets} |->
                    LET m == CHOOSE x \in SharedIdMarkets : VaultAddress(x[2], 0) = a
                    IN  NewVault(m[2], MarketAddress(m[1], 0))]
    /\ last = NoInstruction
    /\ contributions = EmptyStore

SharedOpenInstructions ==
    { OpenIx(Wallet("u1"), m[1], m[2], 0, size, 1, FreshFeed(price)) :
        m \in SharedIdMarkets, size \in {0 - 1, 1}, price \in Prices }

NextShared == \E ix \in SharedOpenInstructions : OpenPosition(ix)

\* The engine run by one trader against two markets of different
\* authorities and the same numeric id.
SpecShared == InitShared /\ [][NextShared]_vars

\* ------------------------------------------------------------------------
\* A market with the documented max_leverage encoding
\* ------------------------------------------------------------------------

\* max_leverage as the Market record documents it: 10x is stored as 1000.
SCALED_MAX_LEVERAGE == 1000

\* The multiple SCALED_MAX_LEVERAGE encodes.
ENCODED_MULTIPLE == 10

ScaledSizes == {0 - 12, 0 - 1, 1, 12}

\* One market as initialize_market writes it (no initial margin, no fee)
\* with max_leverage = 1000, and a trader holding tokens.
InitScaled ==
    /\ markets = (MarketAddress(Wallet("a1"), 0) :>
                     TradableMarket(Wallet("a1"), Mint("usdc"), 0, 0, SCALED_MAX_LEVERAGE, 0))
    /\ users = EmptyStore
    /\ positions = EmptyStore
    /\ tokens = (TokenAccountOf(Wallet("u1"), Mint("usdc")) :>
                     [owner |-> Wallet("u1"), mint |-> Mint("usdc"), amount |-> InitialTokens])
             @@ (VaultAddress(Mint("usdc"), 0) :>
                     NewVault(Mint("usdc"), MarketAddress(Wallet("a1"), 0)))
    /\ last = NoInstruction
    /\ contributions = EmptyStore

ScaledOpenInstructions ==
    { OpenIx(Wallet("u1"), Wallet("a1"), Mint("usdc"), 0,
             size, margin_amount, FreshFeed(price)) :
        size \in ScaledSizes, margin_amount \in Margins, price \in Prices }

NextScaled == \E ix \in ScaledOpenInstructions : OpenPosition(ix)

\* The engine run against the market whose max_leverage is 1000.
SpecScaled == InitScaled /\ [][NextScaled]_vars

\* ------------------------------------------------------------------------
\* Instructions with a substituted account
\* ------------------------------------------------------------------------

\* Which of the four derived accounts the client substitutes, if any.
Substitutions == {"none", "market", "user", "position", "vault"}

\* The instruction with one account replaced by the account of the same
\* kind of the other market or of another wallet.
Substitute(ix, which) ==
    IF which = "market"
    THEN [ix EXCEPT !.market_account = MarketAddress(ix.market_authority, 1 - ix.market_id)]
    ELSE IF which = "user"
    THEN [ix EXCEPT !.user_account = UserAddress(Wallet("u2"))]
    ELSE IF which = "position"
    THEN [ix EXCEPT !.user_position_account = PositionAddress(ix.user, 1 - ix.market_id)]
    ELSE IF which = "vault"
    THEN [ix EXCEPT !.collateral_vault = VaultAddress(ix.collateral_mint, 1 - ix.market_id)]
    ELSE ix

SubstitutedSizes == {0 - 1, 0, 1}

SubstitutedOpenInstructions ==
    { Substitute(OpenIx(Wallet("u1"), Wallet("a1"), Mint("usdc"), market_id,
                        size, margin_amount, FreshFeed(1)), which) :
        market_id \in MarketIds, size \in SubstitutedSizes, margin_amount \in Margins,
        which \in Substitutions }

NextSubstituted == \E ix \in SubstitutedOpenInstructions : OpenPosition(ix)

\* The engine run with instructions whose accounts may be substituted.
SpecSubstituted == InitTrading /\ [][NextSubstituted]_vars

\* ------------------------------------------------------------------------
\* A market record that is not initialized
\* ------------------------------------------------------------------------

\* Market 0 is tradable; the record of market 1 has every field of a
\* tradable market but its is_initialized flag, which is false.
InitUninitialized ==
    /\ markets = (MarketAddress(Wallet("a1"), 0) :>
                     TradableMarket(Wallet("a1"), Mint("usdc"), 0, 2500, 2, 0))
              @@ (MarketAddress(Wallet("a1"), 1) :>
                     [TradableMarket(Wallet("a1"), Mint("usdc"), 1, 0, 4, 5000)
                        EXCEPT !.is_initialized = FALSE])
    /\ users = EmptyStore
    /\ positions = EmptyStore
    /\ tokens = (TokenAccountOf(Wallet("u1"), Mint("usdc")) :>
                     [owner |-> Wallet("u1"), mint |-> Mint("usdc"), amount |-> InitialTokens])
             @@ (VaultAddress(Mint("usdc"), 0) :>
                     NewVault(Mint("usdc"), MarketAddress(Wallet("a1"), 0)))
             @@ (VaultAddress(Mint("usdc"), 1) :>
                     NewVault(Mint("usdc"), MarketAddress(Wallet("a1"), 1)))
    /\ last = NoInstruction
    /\ contributions = EmptyStore

\* The engine run with one initialized and one uninitialized market record.
SpecUninitialized == InitUninitialized /\ [][NextSubstituted]_vars

\* ------------------------------------------------------------------------
\* Repeated initialize_market
\* ------------------------------------------------------------------------

\* Values of max_leverage a client passes to initialize_market.
Leverages == {2, 4}

\* initialize_market for every authority, market id and max_leverage, with
\* the accounts initialize_market derives.
RepeatedInitMarketInstructions ==
    { [InitMarketIx(authority, Mint("usdc"), market_id, signer, 8)
         EXCEPT !.max_leverage = max_leverage] :
        authority \in Authorities, market_id \in MarketIds, signer \in BOOLEAN,
        max_leverage \in Leverages }

NextRepeated == \E ix \in RepeatedInitMarketInstructions : InitializeMarket(ix)

\* initialize_market submitted again and again, from an empty ledger.
SpecRepeated == InitProgram /\ [][NextRepeated]_vars

\* ------------------------------------------------------------------------
\* A trader whose registry is nearly full
\* ------------------------------------------------------------------------

\* Markets on which the trader already holds a position: nine of them.
RegisteredMarketIds == 2..RegistryCap

RegisteredMarket(market_id) ==
    [TradableMarket(Wallet("a1"), Mint("usdc"), market_id, 2500, 2, 0)
       EXCEPT !.open_interest_long = 1, !.total_collateral = 2]

\* Sizes and the price of the instructions submitted to the full registry.
RegistrySizes == {0 - 1, 1}

\* Markets 0 and 1 as in InitTrading; on each market of RegisteredMarketIds
\* the trader opened a long of size 1 with margin 1 at price 1, so nine
\* slots of the registry are taken and one is empty.
InitRegistry ==
    /\ markets = (MarketAddress(Wallet("a1"), 0) :>
                     TradableMarket(Wallet("a1"), Mint("usdc"), 0, 2500, 2, 0))
              @@ (MarketAddress(Wallet("a1"), 1) :>
                     TradableMarket(Wallet("a1"), Mint("usdc"), 1, 0, 4, 5000))
              @@ [a \in {MarketAddress(Wallet("a1"), m) : m \in RegisteredMarketIds} |->
                    RegisteredMarket(CHOOSE m \in RegisteredMarketIds :
                                        MarketAddress(Wallet("a1"), m) = a)]
    /\ users = (UserAddress(Wallet("u1")) :>
                  [NewUserAccount(Wallet("u1")) EXCEPT
                     !.margin_balance = RegistryCap - 1,
                     !.open_positions =
                         [i \in 1..RegistryCap |->
                            IF i + 1 \in RegisteredMarketIds
                            THEN PositionAddress(Wallet("u1"), i + 1)
                            ELSE DefaultPubkey]])
    /\ positions = [p \in {PositionAddress(Wallet("u1"), m) : m \in RegisteredMarketIds} |->
                      NewPosition(Wallet("u1"),
                                  MarketAddress(Wallet("a1"),
                                                CHOOSE m \in RegisteredMarketIds :
                                                   PositionAddress(Wallet("u1"), m) = p),
                                  1, 1, 1, Now)]
    /\ tokens = (TokenAccountOf(Wallet("u1"), Mint("usdc")) :>
                     [owner |-> Wallet("u1"), mint |-> Mint("usdc"), amount |-> InitialTokens])
             @@ (VaultAddress(Mint("usdc"), 0) :>
                     NewVault(Mint("usdc"), MarketAddress(Wallet("a1"), 0)))
             @@ (VaultAddress(Mint("usdc"), 1) :>
                     NewVault(Mint("usdc"), MarketAddress(Wallet("a1"), 1)))
             @@ [v \in {VaultAddress(Mint("usdc"), m) : m \in RegisteredMarketIds} |->
                    [NewVault(Mint("usdc"),
                              MarketAddress(Wallet("a1"),
                                            CHOOSE m \in RegisteredMarketIds :
                                               VaultAddress(Mint("usdc"), m) = v))
                       EXCEPT !.amount = 1]]
    /\ last = NoInstruction
    /\ contributions = EmptyStore

RegistryOpenInstructions ==
    { OpenIx(Wallet("u1"), Wallet("a1"), Mint("usdc"), market_id,
             size, margin_amount, FreshFeed(1)) :
        market_id \in MarketIds, size \in RegistrySizes, margin_amount \in Margins }

NextRegistry == \E ix \in RegistryOpenInstructions : OpenPosition(ix)

\* The engine run for a trader with nine positions on other markets.
SpecRegistry == InitRegistry /\ [][NextRegistry]_vars

\* ------------------------------------------------------------------------
\* Price updates of every age
\* ------------------------------------------------------------------------

\* Publish times around the staleness limit, and one in the future.
PublishTimes == {Now - MAX_AGE - 1, Now - MAX_AGE, Now, Now + 1}

\* Prices the update carries, valid or not.
FeedPrices == {0 - 1, 0, 1}

AgedOpenInstructions ==
    { OpenIx(Wallet("u1"), Wallet("a1"), Mint("usdc"), market_id, size, margin_amount,
             [FreshFeed(price) EXCEPT !.publish_time = publish_time]) :
        market_id \in MarketIds, size \in RegistrySizes, margin_amount \in {1},
        price \in FeedPrices, publish_time \in PublishTimes }

NextAged == \E ix \in AgedOpenInstructions : OpenPosition(ix)

\* The engine run with price updates of every age and price.
SpecAged == InitTrading /\ [][NextAged]_vars

\* ------------------------------------------------------------------------
\* Account blobs of every length
\* ------------------------------------------------------------------------

\* Lengths of an account blob relative to the fixed size of its record:
\* one byte short, exact, one byte long.
LengthDeltas == {0 - 1, 0, 1}

\* Wallets the user field of the position blob may name.
PositionOwners == {Wallet("u1"), Wallet("u2")}

\* The trader holds a long of size 1 on market 0; the blobs of that market,
\* of the trader's UserAccount and of the position have any of the lengths,
\* and the position blob names any of the owners.
InitLayout ==
    \E market_delta \in LengthDeltas, user_delta \in LengthDeltas,
       position_delta \in LengthDeltas, position_owner \in PositionOwners :
    /\ markets = (MarketAddress(Wallet("a1"), 0) :>
                     [RegisteredMarket(0) EXCEPT !.data_len = Market_SIZE + market_delta])
              @@ (MarketAddress(Wallet("a1"), 1) :>
                     TradableMarket(Wallet("a1"), Mint("usdc"), 1, 0, 4, 5000))
    /\ users = (UserAddress(Wallet("u1")) :>
                  [NewUserAccount(Wallet("u1")) EXCEPT
                     !.data_len = UserAccount_SIZE + user_delta,
                     !.margin_balance = 1,
                     !.open_positions[1] = PositionAddress(Wallet("u1"), 0)])
    /\ positions = (PositionAddress(Wallet("u1"), 0) :>
                      [NewPosition(position_owner, MarketAddress(Wallet("a1"), 0), 1, 1, 1, Now)
                         EXCEPT !.data_len = Position_SIZE + position_delta])
    /\ tokens = (TokenAccountOf(Wallet("u1"), Mint("usdc")) :>
                     [owner |-> Wallet("u1"), mint |-> Mint("usdc"), amount |-> InitialTokens])
             @@ (VaultAddress(Mint("usdc"), 0) :>
                     [NewVault(Mint("usdc"), MarketAddress(Wallet("a1"), 0))
                        EXCEPT !.amount = 1])
             @@ (VaultAddress(Mint("usdc"), 1) :>
                     NewVault(Mint("usdc"), MarketAddress(Wallet("a1"), 1)))
    /\ last = NoInstruction
    /\ contributions = EmptyStore

\* The engine run on account blobs of every length.
SpecLayout == InitLayout /\ [][NextRegistry]_vars

\* ------------------------------------------------------------------------
\* Environment: price updates of every scale
\* ------------------------------------------------------------------------

\* Exponents below, at and above the target scale of 10^-8; the power of the
\* lowest one leaves the i64 range.
Exponents == {0 - 10, 0 - 9, 0 - 8, 0 - 7, 0}

\* Raw prices: invalid ones, small ones, and ones whose rescaled value
\* leaves the range.
RawPrices == {0 - 1, 0, 5, 22, 250}

NormalizedOpenInstructions ==
    { OpenIx(Wallet("u1"), Wallet("a1"), Mint("usdc"), market_id, size, margin_amount,
             [FreshFeed(price) EXCEPT !.exponent = exponent,
                                      !.overflow_checks = overflow_checks]) :
        market_id \in {0}, size \in RegistrySizes, margin_amount \in {1},
        price \in RawPrices, exponent \in Exponents,
        overflow_checks \in BOOLEAN }

\* The engine run with price updates of every scale, on builds with and
\* without overflow checks.
SpecNormalized == InitTrading /\ [][\E ix \in NormalizedOpenInstructions : OpenPosition(ix)]_vars

\* ------------------------------------------------------------------------
\* Environment: notionals that are not multiples of the margin
\* ------------------------------------------------------------------------

\* Prices that make notional / margin fractional for a margin of 2.
RemainderPrices == {1, 5}

RemainderOpenInstructions ==
    { OpenIx(Wallet("u1"), Wallet("a1"), Mint("usdc"), market_id,
             size, margin_amount, FreshFeed(price)) :
        market_id \in MarketIds, size \in RegistrySizes, margin_amount \in Margins,
        price \in RemainderPrices }

\* The engine run with notionals between two multiples of the margin.
SpecRemainder == InitTrading /\ [][\E ix \in RemainderOpenInstructions : OpenPosition(ix)]_vars

\* ------------------------------------------------------------------------
\* Environment: sizes whose low bits carry out of the u64, at prices 0 and 1
\* ------------------------------------------------------------------------

\* A short of magnitude 2^w, whose low bits are 0, and small deltas: after
\* +1 the magnitude 2^w - 1 has every low bit set, and -2 carries out of
\* the u64.
CarrySizes == {0 - U64_MAX - 1, 0 - 2, 1}

\* Price updates the adapter reads as 0 (5 * 10^-9) and as 1 (1 * 10^-8).
CarryFeeds == {[FreshFeed(5) EXCEPT !.exponent = 0 - 9], FreshFeed(1)}

CarryOpenInstructions ==
    { OpenIx(Wallet("u1"), Wallet("a1"), Mint("usdc"), market_id,
             size, margin_amount, feed) :
        market_id \in MarketIds, size \in CarrySizes, margin_amount \in {1},
        feed \in CarryFeeds }

\* The engine run with positions whose magnitude plus the delta carries out
\* of the u64.
SpecCarry == InitTrading /\ [][\E ix \in CarryOpenInstructions : OpenPosition(ix)]_vars

\* ------------------------------------------------------------------------
\* Claims
\* ------------------------------------------------------------------------

OpenDone == last.op = "open_position"

OpenSucceeded == last.op = "open_position" /\ last.kind = "Ok"

\* C1: whenever an open/adjust-position transition returns an error, the
\* Market, UserMargin and Position records are the ones from before it.
C1_FailureLeavesRecords ==
    [][(last'.op = "open_position" /\ last'.kind # "Ok") => records' = records]_vars

\* The checks process_open_position makes before it computes the notional.
BeforeRisk ==
    { "signer", "system_program", "token_program", "payload_length", "mint_equality",
      "zero_size", "market_pda", "user_pda", "position_pda", "vault_pda", "market_layout",
      "market_initialized", "market_authority", "market_vault", "market_mint",
      "user_token_account", "vault_token_account", "oracle" }

\* The checks before the comparison of the leverage with max_leverage.
BeforeLeverage == BeforeRisk \cup {"position_value", "required_margin", "margin", "leverage_value"}

\* The oracle price of an instruction whose feed is at the target scale.
PriceOf(ix) == ix.feed.price

\* margin < floor(|size| * price * bps / 10000), on unbounded integers.
MarginBelowRequired(ix, initial_margin_bps) ==
    /\ initial_margin_bps > 0
    /\ Abs(ix.size) * PriceOf(ix)
         >= ((ix.margin_amount + 1) * 10000 + initial_margin_bps - 1) \div initial_margin_bps

\* C2: a transition whose deposited margin is below
\* floor(|size delta| * price * initial_margin_bps / 10000) fails with
\* InsufficientFunds and no Market, UserMargin or Position record changes.
C2_MarginBelowRequiredRejected ==
    [][(/\ last'.op = "open_position"
        /\ last'.at \notin BeforeRisk
        /\ MarginBelowRequired(last'.ix, markets[last'.ix.market_account].initial_margin))
       => (last'.kind = "InsufficientFunds" /\ records' = records)]_vars

\* |size| * price is a u64, so that notional / margin is a u64 division.
NotionalFitsU64(ix) ==
    /\ Abs(ix.size) <= U64_MAX
    /\ Abs(ix.size) * PriceOf(ix) <= U64_MAX

C4_CollateralGrowsByDeposit ==
    [][(last'.op = "open_position" /\ last'.kind = "Ok")
       => markets'[last'.ix.market_account].total_collateral
            = markets[last'.ix.market_account].total_collateral + last'.ix.margin_amount]_vars

\* Sum of |size| over the positions of `market` whose size has sign `sign`.
RECURSIVE SumSizes(_, _, _)
SumSizes(addrs, market, sign) ==
    IF addrs = {} THEN 0
    ELSE LET a == CHOOSE x \in addrs : TRUE
             p == positions[a]
         IN  (IF p.market = market /\ p.size * sign > 0 THEN Abs(p.size) ELSE 0)
             + SumSizes(addrs \ {a}, market, sign)

\* C5: in every state, open_interest_long is the sum of |size| over the
\* market's long positions and open_interest_short over its short positions.
C5_OpenInterestIsSumOfSizes ==
    \A m \in DOMAIN markets :
        /\ markets[m].open_interest_long = SumSizes(DOMAIN positions, m, 1)
        /\ markets[m].open_interest_short = SumSizes(DOMAIN positions, m, 0 - 1)

\* The position a same-direction add acts on: it exists, is active and has
\* the sign of the delta.
SameDirectionAdd(ix) ==
    /\ ~data_is_empty(AccountAt(positions, ix.user_position_account))
    /\ positions[ix.user_position_account].is_active
    /\ SameDirection(positions[ix.user_position_account].size, ix.size)

\* C8: a successful same-direction add gives size old + delta, entry price
\* (|old| * oldEntry + |delta| * price) / |new| truncated, and margin
\* increased by the deposit.
C8_SameDirectionMerge ==
    [][(/\ last'.op = "open_position" /\ last'.kind = "Ok"
        /\ SameDirectionAdd(last'.ix))
       => LET old == positions[last'.ix.user_position_account]
              new == positions'[last'.ix.user_position_account]
              d   == last'.ix.size
          IN  /\ new.size = old.size + d
              /\ new.entry_price
                   = (Abs(old.size) * old.entry_price + Abs(d) * PriceOf(last'.ix))
                        \div Abs(old.size + d)
              /\ new.margin = old.margin + last'.ix.margin_amount]_vars

\* C9: after opens and same-direction adds d_1@p_1 .. d_n@p_n since the
\* position was last flat, entry_price is (sum |d_i| * p_i) / (sum |d_i|),
\* truncated.
C9_EntryPriceIsWeightedAverage ==
    \A p \in DOMAIN positions :
        (p \in DOMAIN contributions /\ contributions[p].pure /\ positions[p].is_active)
        => positions[p].entry_price = contributions[p].notional \div contributions[p].size

\* C10 as stated: every successful transition on an existing position,
\* reopening from Flat included, leaves margin >= the margin before.
C10_MarginNeverDecreases ==
    [][(/\ last'.op = "open_position" /\ last'.kind = "Ok"
        /\ ~data_is_empty(AccountAt(positions, last'.ix.user_position_account)))
       => positions'[last'.ix.user_position_account].margin
            >= positions[last'.ix.user_position_account].margin]_vars

\* C10 amended: a successful transition on an existing active position
\* (merge, partial close, flip, flatten) adds the deposit to margin, so
\* margin does not decrease; reopening from Flat sets margin to the deposit.
C10_MarginAccumulatesWhileActive ==
    [][(/\ last'.op = "open_position" /\ last'.kind = "Ok"
        /\ ~data_is_empty(AccountAt(positions, last'.ix.user_position_account)))
       => LET old == positions[last'.ix.user_position_account]
              new == positions'[last'.ix.user_position_account]
          IN  IF old.is_active
              THEN new.margin = old.margin + last'.ix.margin_amount /\ new.margin >= old.margin
              ELSE new.margin = last'.ix.margin_amount]_vars

\* C10 witness: a transition flattened a position whose margin had
\* accumulated over earlier deposits.
C10_Witness ==
    /\ OpenSucceeded
    /\ positions[last.ix.user_position_account].margin > last.ix.margin_amount
    /\ positions[last.ix.user_position_account].size = 0

\* C6: every market initialize_market created sits at the addresses
\* process_open_position derives for its authority, mint and market id, so
\* an open on it passes the address-derivation check.
C6_CreatedMarketIsTradable ==
    \A a \in DOMAIN markets :
        (markets[a].is_initialized /\ markets[a].market_id <= 255)
        => LET ix == [ market_authority |-> markets[a].authority,
                       collateral_mint  |-> markets[a].collateral_mint,
                       market_id        |-> markets[a].market_id ]
           IN  /\ open_market_pda(ix) = a
               /\ open_vault_pda(ix) = markets[a].collateral_vault

\* C7: a Position record belongs to one (trader, market) pair: a
\* successful transition on a market acts on a Position whose market field
\* is that market, the one whose aggregates it updates.
C7_PositionOfOneMarket ==
    OpenSucceeded
    => /\ positions[last.ix.user_position_account].user = last.ix.user
       /\ positions[last.ix.user_position_account].market = last.ix.market_account

\* The Position account the last instruction named, before and after it.
ExistingPosition(ix) == ~data_is_empty(AccountAt(positions, ix.user_position_account))

\* C11: a successful transition that applies the delta -S to an active long
\* of size S leaves the position Flat: size 0 and is_active false, whatever
\* the prices of the two transitions.
C11_NetToZeroIsFlat ==
    [][(/\ last'.op = "open_position" /\ last'.kind = "Ok"
        /\ ExistingPosition(last'.ix)
        /\ positions[last'.ix.user_position_account].is_active
        /\ positions[last'.ix.user_position_account].size > 0
        /\ last'.ix.size = 0 - positions[last'.ix.user_position_account].size)
       => /\ positions'[last'.ix.user_position_account].size = 0
          /\ ~positions'[last'.ix.user_position_account].is_active]_vars

\* C11 witness: a long opened by one transition at price 4 has just been
\* closed by the exact opposite delta at price 1.
C11_Witness ==
    /\ OpenSucceeded
    /\ last.ix.size < 0
    /\ PriceOf(last.ix) = 1
    /\ positions[last.ix.user_position_account].size = 0
    /\ ~positions[last.ix.user_position_account].is_active
    /\ positions[last.ix.user_position_account].entry_price = 4

\* C12: every Position record of size 0 is inactive.
C12_ZeroSizeIsInactive ==
    \A p \in DOMAIN positions : positions[p].size = 0 => ~positions[p].is_active

\* C12 witness: a Position record of size 0 exists, and a zero-size request
\* has just been made against it.
C12_Witness ==
    /\ OpenDone
    /\ last.ix.size = 0
    /\ ExistingPosition(last.ix)
    /\ positions[last.ix.user_position_account].size = 0

\* The last instruction is an opposite-direction delta on an active position.
OppositeDelta(ix) ==
    /\ ExistingPosition(ix)
    /\ positions[ix.user_position_account].is_active
    /\ OppositeDirection(positions[ix.user_position_account].size, ix.size)

\* C13: a successful opposite-direction delta that reverses an active
\* position through zero gives size old + delta, sets the entry price to the
\* current oracle price and leaves is_active true.
C13_FlipResetsEntryPrice ==
    [][(/\ last'.op = "open_position" /\ last'.kind = "Ok"
        /\ OppositeDelta(last'.ix)
        /\ OppositeDirection(positions[last'.ix.user_position_account].size,
                             positions[last'.ix.user_position_account].size + last'.ix.size))
       => LET old == positions[last'.ix.user_position_account]
              new == positions'[last'.ix.user_position_account]
          IN  /\ new.size = old.size + last'.ix.size
              /\ new.entry_price = PriceOf(last'.ix)
              /\ new.is_active]_vars

\* C13 witness: the position has the sign of the last delta and a smaller
\* magnitude, which only a flip produces, and its entry price is the price
\* of that transition, 1.
C13_Witness ==
    /\ OpenSucceeded
    /\ positions[last.ix.user_position_account].is_active
    /\ SameDirection(positions[last.ix.user_position_account].size, last.ix.size)
    /\ Abs(positions[last.ix.user_position_account].size) < Abs(last.ix.size)
    /\ PriceOf(last.ix) = 1
    /\ positions[last.ix.user_position_account].entry_price = 1

\* C14: a successful opposite-direction delta that leaves old + delta
\* nonzero with the sign of old keeps the entry price and is_active true;
\* one that makes old + delta zero keeps the entry price too.
C14_PartialCloseKeepsEntryPrice ==
    [][(/\ last'.op = "open_position" /\ last'.kind = "Ok"
        /\ OppositeDelta(last'.ix)
        /\ ~OppositeDirection(positions[last'.ix.user_position_account].size,
                              positions[last'.ix.user_position_account].size + last'.ix.size))
       => LET old == positions[last'.ix.user_position_account]
              new == positions'[last'.ix.user_position_account]
          IN  /\ new.entry_price = old.entry_price
              /\ new.size = old.size + last'.ix.size
              /\ (new.size # 0 => new.is_active)]_vars

\* C14 witness: a partial close at price 4 of a position entered at price 1.
C14_Witness ==
    /\ OpenSucceeded
    /\ positions[last.ix.user_position_account].is_active
    /\ OppositeDirection(positions[last.ix.user_position_account].size, last.ix.size)
    /\ PriceOf(last.ix) = 4
    /\ positions[last.ix.user_position_account].entry_price = 1

\* open_interest_long + open_interest_short of a market record.
OpenInterest(market) == market.open_interest_long + market.open_interest_short

\* C15: the notional of a transition is |size| * price or the transition
\* fails with ArithmeticOverflow, and the magnitude added to the open
\* interest is the |size delta| recorded in the Position.
C15_MagnitudeIsTrueSize ==
    [][(last'.op = "open_position" /\ last'.at \notin BeforeRisk)
       => LET ix    == last'.ix
              value == calculate_position_value(ix.size, PriceOf(ix))
          IN  /\ IF value.ok THEN value.v = Abs(ix.size) * PriceOf(ix)
                 ELSE last'.kind = "ArithmeticOverflow"
              /\ last'.kind = "Ok"
                   => OpenInterest(markets'[ix.market_account])
                        = OpenInterest(markets[ix.market_account]) + Abs(ix.size)]_vars

\* C16: on a market whose max_leverage is stored as 1000 for 10x, every
\* transition whose notional / margin is above 10 is rejected by the
\* leverage check with InvalidInstructionData.
C16_ScaledLeverageRejected ==
    [][(/\ last'.op = "open_position"
        /\ last'.at \notin BeforeLeverage
        /\ markets[last'.ix.market_account].max_leverage = SCALED_MAX_LEVERAGE
        /\ NotionalFitsU64(last'.ix)
        /\ (Abs(last'.ix.size) * PriceOf(last'.ix)) \div last'.ix.margin_amount
              > ENCODED_MULTIPLE)
       => (last'.kind = "InvalidInstructionData" /\ last'.at = "leverage")]_vars

\* The checks and steps of process_open_position before the fee is deducted.
BeforeSettle ==
    BeforeLeverage \cup {"leverage", "trading_fee", "total_required", "create_user",
                         "user_layout", "user_owner", "transfer", "margin_balance"}

\* floor(n * r / d) on unbounded integers, n = (n \div d) * d + (n % d).
FloorMulDiv(n, r, d) == (n \div d) * r + ((n % d) * r) \div d

\* The fee of the transition: floor(|size delta| * price * fee_bps / 10000).
FeeOf(ix, fee_bps) == FloorMulDiv(Abs(ix.size) * PriceOf(ix), fee_bps, BPS_DENOM)

\* The trader's aggregate margin balance, zero before the record exists.
BalanceOf(store, ix) ==
    IF data_is_empty(AccountAt(store, ix.user_account)) THEN 0
    ELSE store[ix.user_account].margin_balance

\* C17: a successful transition with deposit m and fee
\* f = floor(notional * fee_bps / 10000) takes the trader's margin balance
\* from b to b + m - f; a transition that reaches the fee deduction with
\* b + m < f fails with InsufficientFunds; the balance stays a u64.
C17_BalanceChangesByDepositMinusFee ==
    [][last'.op = "open_position"
       => LET ix == last'.ix
              b  == BalanceOf(users, ix)
              f  == FeeOf(ix, markets[ix.market_account].fee_rate)
          IN  /\ last'.kind = "Ok"
                   => BalanceOf(users', ix) = b + ix.margin_amount - f
              /\ (last'.at \notin BeforeSettle /\ b + ix.margin_amount < f)
                   => last'.kind = "InsufficientFunds"
              /\ BalanceOf(users', ix) \in U64]_vars

\* One of the market, user, position or vault accounts supplied is not the
\* address derived from its tag, owning key and market id.
AddressDiffers(ix) ==
    \/ ix.market_account # open_market_pda(ix)
    \/ ix.user_account # open_user_pda(ix)
    \/ ix.user_position_account # open_position_pda(ix)
    \/ ix.collateral_vault # open_vault_pda(ix)

\* The checks of process_open_position before the addresses are derived.
BeforeDerivation ==
    {"signer", "system_program", "token_program", "payload_length", "mint_equality", "zero_size"}

\* The four address comparisons.
AddressChecks == {"market_pda", "user_pda", "position_pda", "vault_pda"}

\* C18: a transition in which one of the market, user-margin, position or
\* vault accounts differs from the derived address fails and changes no
\* record and no token balance; unless an earlier check on the signer, the
\* programs or the payload rejected it, it fails at the address comparison
\* with the address-mismatch error (InvalidAccountData, InvalidSeeds for the
\* vault).
C18_AddressMismatchRejected ==
    [][(last'.op = "open_position" /\ AddressDiffers(last'.ix))
       => /\ last'.kind # "Ok"
          /\ records' = records
          /\ tokens' = tokens
          /\ last'.at \notin BeforeDerivation
               => /\ last'.at \in AddressChecks
                  /\ last'.kind = IF last'.at = "vault_pda" THEN "InvalidSeeds"
                                  ELSE "InvalidAccountData"]_vars

\* C18 witness: with positions open, a transition whose position account is
\* the one of the other market was rejected at the address comparison.
C18_Witness ==
    /\ OpenDone
    /\ last.at = "position_pda"
    /\ last.kind = "InvalidAccountData"
    /\ ExistingPosition(last.ix)
    /\ positions[last.ix.user_position_account].is_active

\* The checks of process_open_position before the size delta is parsed.
BeforeSizeTest ==
    {"signer", "system_program", "token_program", "payload_length", "mint_equality"}

\* C19: a transition whose size delta is exactly zero fails and creates or
\* changes no record and no token balance; unless an earlier check on the
\* signer, the programs, the payload length or the mint rejected it, it
\* fails with InvalidInstructionData at the zero test, before the addresses
\* are derived.
C19_ZeroSizeRejected ==
    [][(last'.op = "open_position" /\ last'.ix.size = 0)
       => /\ last'.kind # "Ok"
          /\ records' = records
          /\ tokens' = tokens
          /\ last'.at \notin BeforeSizeTest
               => (last'.kind = "InvalidInstructionData" /\ last'.at = "zero_size")]_vars

\* C19 witness: a zero-size transition against an active position, with a
\* substituted vault account, was rejected at the zero test.
C19_Witness ==
    /\ OpenDone
    /\ last.ix.size = 0
    /\ last.kind = "InvalidInstructionData"
    /\ last.at = "zero_size"
    /\ AddressDiffers(last.ix)
    /\ ExistingPosition(last.ix)
    /\ positions[last.ix.user_position_account].is_active

\* The market record the instruction names is laid out as a Market and its
\* is_initialized flag is false.
MarketNotInitialized(ix) ==
    /\ decode_ok(AccountAt(markets, ix.market_account), Market_SIZE)
    /\ ~markets[ix.market_account].is_initialized

\* The checks of process_open_position before the is_initialized test.
BeforeInitializedTest == BeforeDerivation \cup AddressChecks \cup {"market_layout"}

\* C20: a transition against a market record whose is_initialized flag is
\* false never succeeds and changes no record and no token balance; once
\* past the payload and address checks it fails with UninitializedAccount.
\* Every successful transition names a market that was initialized before it.
C20_UninitializedMarketRejected ==
    [][last'.op = "open_position"
       => /\ MarketNotInitialized(last'.ix)
               => /\ last'.kind # "Ok"
                  /\ records' = records
                  /\ tokens' = tokens
                  /\ last'.at \notin BeforeInitializedTest
                       => /\ last'.kind = "UninitializedAccount"
                          /\ last'.at = "market_initialized"
          /\ last'.kind = "Ok"
               => /\ decode_ok(AccountAt(markets, last'.ix.market_account), Market_SIZE)
                  /\ markets[last'.ix.market_account].is_initialized]_vars

\* C20 witness: a trader holding a position on the initialized market was
\* refused a transition on the uninitialized one.
C20_Witness ==
    /\ OpenDone
    /\ last.kind = "UninitializedAccount"
    /\ last.at = "market_initialized"
    /\ MarketNotInitialized(last.ix)
    /\ \E p \in DOMAIN positions : positions[p].is_active

\* The checks of initialize_market before it looks at the market account.
BeforeMarketExists == {"signer", "vault_pda", "market_pda"}

\* C21: initialize_market for a market account or a collateral vault that
\* already exists fails with AccountAlreadyInitialized once past the signer
\* and address checks, and an existing Market record is never rewritten by
\* initialize_market, whatever it returns.
C21_MarketCreatedOnce ==
    [][last'.op = "initialize_market"
       => LET ix == last'.ix
              market_exists == ~data_is_empty(AccountAt(markets, ix.market_account))
          IN  /\ (/\ last'.at \notin BeforeMarketExists
                  /\ market_exists \/ is_token_account(tokens, ix.collateral_vault))
                   => last'.kind = "AccountAlreadyInitialized"
              /\ \A a \in DOMAIN markets : markets'[a] = markets[a]]_vars

\* C21 witness: initialize_market with another max_leverage was refused for
\* a market that exists.
C21_Witness ==
    /\ last.op = "initialize_market"
    /\ last.kind = "AccountAlreadyInitialized"
    /\ last.at = "market_exists"
    /\ markets[last.ix.market_account].max_leverage # last.ix.max_leverage

\* The Market record with its three aggregates taken from another record.
WithAggregatesOf(market, other) ==
    [market EXCEPT !.open_interest_long  = other.open_interest_long,
                   !.open_interest_short = other.open_interest_short,
                   !.total_collateral    = other.total_collateral]

\* C22: an open/adjust-position transition, whatever it returns, creates no
\* Market record and changes no field of a Market record other than
\* open_interest_long, open_interest_short and total_collateral; the vault,
\* mint, authority and risk parameters stay as created.
C22_MarketFrame ==
    [][last'.op = "open_position"
       => /\ DOMAIN markets' = DOMAIN markets
          /\ \A a \in DOMAIN markets :
                /\ WithAggregatesOf(markets'[a], markets[a]) = markets[a]
                /\ a # last'.ix.market_account => markets'[a] = markets[a]]_vars

\* C22 witness: a successful transition changed the aggregates of its market.
C22_Witness ==
    /\ OpenSucceeded
    /\ markets[last.ix.market_account].total_collateral > 0
    /\ OpenInterest(markets[last.ix.market_account]) > 1

\* The registry of the trader of ix, before the transition.
RegistryOf(store, ix) == store[ix.user_account].open_positions

\* Every slot of the registry holds the address of another position.
RegistryFull(open_positions, key) ==
    SlotOf(open_positions, key) = 0 /\ SlotOf(open_positions, DefaultPubkey) = 0

\* The steps of process_open_position before the Position record is created.
BeforeCreation == BeforeSettle \cup {"fee"}

\* C23: a transition that creates the Position record writes its address
\* into the first empty slot of the trader's registry, unless the address is
\* already there; when every slot holds another address, the transition
\* fails with AccountAlreadyInitialized and no Position record exists at the
\* address afterwards.
C23_RegistryInsertion ==
    [][(/\ last'.op = "open_position"
        /\ last'.at \notin BeforeCreation
        /\ ~ExistingPosition(last'.ix)
        /\ ~data_is_empty(AccountAt(users, last'.ix.user_account)))
       => LET ix   == last'.ix
              key  == ix.user_position_account
              reg  == RegistryOf(users, ix)
              slot == SlotOf(reg, DefaultPubkey)
          IN  IF RegistryFull(reg, key)
              THEN /\ last'.kind = "AccountAlreadyInitialized"
                   /\ data_is_empty(AccountAt(positions', key))
              ELSE last'.kind = "Ok"
                     => RegistryOf(users', ix) =
                           IF SlotOf(reg, key) # 0 THEN reg
                           ELSE [reg EXCEPT ![slot] = key]]_vars

\* The Position records owned by the owner of a UserAccount.
PositionsOwnedBy(owner) == { p \in DOMAIN positions : positions[p].user = owner }

\* C24: in every reachable state, no two slots of a trader's registry hold
\* the same non-default address, every Position record the trader owns is in
\* the registry, and the trader owns at most 10 Position records.
C24_RegistryHoldsEveryPosition ==
    \A u \in DOMAIN users :
        LET reg == users[u].open_positions
        IN  /\ \A i, j \in DOMAIN reg :
                  (i # j /\ reg[i] # DefaultPubkey) => reg[i] # reg[j]
            /\ \A p \in PositionsOwnedBy(users[u].owner) : SlotOf(reg, p) # 0
            /\ Cardinality(PositionsOwnedBy(users[u].owner)) <= RegistryCap

\* The checks and steps of process_open_position before the token transfer.
BeforeTransfer == BeforeSettle \ {"transfer", "margin_balance"}

\* C25: an open/adjust-position transition that fails at a check or step
\* before the token transfer has created and written no Market, UserAccount
\* or Position record, and moved no token.
C25_FailureBeforeTransferWritesNothing ==
    [][(/\ last'.op = "open_position"
        /\ last'.kind # "Ok"
        /\ last'.at \in BeforeTransfer)
       => (records' = records /\ tokens' = tokens)]_vars

\* C25 witness: a trader without a UserAccount was refused before the
\* transfer, and has no UserAccount afterwards.
C25_Witness ==
    /\ OpenDone
    /\ last.kind # "Ok"
    /\ last.at \in BeforeTransfer
    /\ data_is_empty(AccountAt(users, last.ix.user_account))

\* current_time - publish_time of the price update of the instruction.
AgeOf(ix) == ix.now - ix.feed.publish_time

\* The checks of process_open_position before the oracle read.
BeforeOracle == BeforeRisk \ {"oracle"}

\* C26: with a price update older than max_age = 60 seconds the oracle read
\* fails whatever the price, and the transition fails at the oracle read
\* with no record or token balance changed; an update of age at most 60 with
\* a positive price is read successfully.
C26_StaleFeedRejected ==
    [][(last'.op = "open_position" /\ last'.at \notin BeforeOracle)
       => LET ix == last'.ix
          IN  /\ AgeOf(ix) > MAX_AGE
                   => /\ ~get_sol_price_for_trading(ix.feed, ix.now, MAX_AGE).ok
                      /\ last'.kind = "InvalidAccountData"
                      /\ last'.at = "oracle"
                      /\ records' = records
                      /\ tokens' = tokens
              /\ (AgeOf(ix) <= MAX_AGE /\ ix.feed.price > 0)
                   => /\ get_sol_price_for_trading(ix.feed, ix.now, MAX_AGE).ok
                      /\ last'.at # "oracle"]_vars

\* C26 witness: with a position open, a transition with a 61-second-old
\* update of a valid price was refused at the oracle read.
C26_Witness ==
    /\ OpenDone
    /\ last.at = "oracle"
    /\ AgeOf(last.ix) = MAX_AGE + 1
    /\ last.ix.feed.price = 1
    /\ ExistingPosition(last.ix)

\* Whether the initiating account of an instruction signed it.
InitiatorSigned(op, ix) ==
    IF op = "initialize_market" THEN ix.authority_is_signer ELSE ix.user_is_signer

\* C27: an initialize_market, initialize_user or open/adjust-position
\* instruction whose initiating account is not a signer fails with
\* MissingRequiredSignature and creates or changes no record.
C27_UnsignedRejected ==
    [][(/\ last'.op \in {"initialize_market", "initialize_user", "open_position"}
        /\ ~InitiatorSigned(last'.op, last'.ix))
       => (/\ last'.kind = "MissingRequiredSignature"
           /\ records' = records
           /\ tokens' = tokens)]_vars

\* The checks of process_open_position before the Market is decoded.
BeforeMarketLoad == BeforeDerivation \cup AddressChecks

\* The checks and steps before an existing UserAccount is decoded.
BeforeUserLoad == BeforeTransfer \ {"create_user", "user_layout", "user_owner"}

\* C28: decoding a Market, UserAccount or Position blob fails with the
\* invalid-layout error (InvalidAccountData) exactly when the blob is
\* shorter than the record's fixed size, and succeeds for every blob at
\* least that long.
C28_DecodeFailsExactlyWhenShort ==
    [][last'.op = "open_position"
       => LET ix       == last'.ix
              market   == AccountAt(markets, ix.market_account)
              user     == AccountAt(users, ix.user_account)
              position == AccountAt(positions, ix.user_position_account)
          IN  /\ last'.at \notin BeforeMarketLoad
                   => (last'.at = "market_layout" <=> market.data_len < Market_SIZE)
              /\ (last'.at \notin BeforeUserLoad /\ ~data_is_empty(user))
                   => (last'.at = "user_layout" <=> user.data_len < UserAccount_SIZE)
              /\ (last'.at \notin BeforeCreation \cup {"create_position"}
                  /\ ~data_is_empty(position))
                   => (last'.at = "position_layout" <=> position.data_len < Position_SIZE)
              /\ last'.at \in {"market_layout", "user_layout", "position_layout"}
                   => last'.kind = "InvalidAccountData"]_vars

\* C29: a successful transition with size delta d adds |d| to
\* open_interest_long when d > 0 and to open_interest_short when d < 0, and
\* leaves the other counter as it was; no transition lowers either counter.
C29_OpenInterestGrowsByDelta ==
    [][last'.op = "open_position"
       => LET ix     == last'.ix
              before == AccountAt(markets, ix.market_account)
              after  == AccountAt(markets', ix.market_account)
          IN  /\ last'.kind = "Ok"
                   => IF ix.size > 0
                      THEN /\ after.open_interest_long = before.open_interest_long + Abs(ix.size)
                           /\ after.open_interest_short = before.open_interest_short
                      ELSE /\ after.open_interest_short = before.open_interest_short + Abs(ix.size)
                           /\ after.open_interest_long = before.open_interest_long
              /\ \A a \in DOMAIN markets :
                    /\ markets'[a].open_interest_long >= markets[a].open_interest_long
                    /\ markets'[a].open_interest_short >= markets[a].open_interest_short]_vars

\* The validation checks of process_open_position on the existing Position
\* record: its layout and its owner.
PositionChecks == {"position_layout", "position_owner"}

\* C30: the token transfer is executed only when every validation check,
\* the oracle read and both risk checks have passed, and no validation check
\* is evaluated after it; the fee deduction, the position update and the
\* market accounting follow the transfer in that order.
C30_TransferAfterEveryCheck ==
    [][last'.op = "open_position"
       => /\ tokens' # tokens
               => last'.at \notin (BeforeTransfer \cup {"transfer"} \cup PositionChecks)
          /\ last'.at \in {"margin_balance", "fee"}
               => (positions' = positions /\ markets' = markets)
          /\ last'.at \in {"create_position", "registry", "position_update"} \cup PositionChecks
               => markets' = markets]_vars

\* C31: a successful transition that creates the Position writes owner = the
\* trader, market = the market account supplied, size = the size delta,
\* entry price = the oracle price, margin = the deposit, unrealized PnL = 0,
\* funding payment = 0, last funding settlement = the current time and
\* is_active = true.
C31_CreatedPositionFields ==
    [][(last'.op = "open_position" /\ last'.kind = "Ok" /\ ~ExistingPosition(last'.ix))
       => LET ix  == last'.ix
              pos == positions'[ix.user_position_account]
          IN  /\ pos.user = ix.user
              /\ pos.market = ix.market_account
              /\ pos.size = ix.size
              /\ pos.entry_price = PriceOf(ix)
              /\ pos.margin = ix.margin_amount
              /\ pos.unrealized_pnl = 0
              /\ pos.funding_payment = 0
              /\ pos.last_funding_settlement = ix.now
              /\ pos.is_active]_vars

\* C31 witness: a short of size 2 was just created at price 1 with margin 2.
C31_Witness ==
    /\ OpenSucceeded
    /\ contributions[last.ix.user_position_account].count = 1
    /\ last.ix.size = 0 - 2
    /\ PriceOf(last.ix) = 1
    /\ positions[last.ix.user_position_account].size = 0 - 2
    /\ last.ix.margin_amount = 2
    /\ positions[last.ix.user_position_account].last_funding_settlement = Now

\* C32: a successful transition on an existing inactive Position reopens
\* it: size = the size delta, entry price = the oracle price, margin = the
\* deposit, is_active = true, last funding settlement = the current time;
\* owner, market and the trader's registry stay as they were.
C32_FlatPositionReopens ==
    [][(/\ last'.op = "open_position"
        /\ last'.kind = "Ok"
        /\ ExistingPosition(last'.ix)
        /\ ~positions[last'.ix.user_position_account].is_active)
       => LET ix  == last'.ix
              old == positions[ix.user_position_account]
              pos == positions'[ix.user_position_account]
          IN  /\ pos.size = ix.size
              /\ pos.entry_price = PriceOf(ix)
              /\ pos.margin = ix.margin_amount
              /\ pos.is_active
              /\ pos.last_funding_settlement = ix.now
              /\ pos.user = old.user
              /\ pos.market = old.market
              /\ RegistryOf(users', ix) = RegistryOf(users, ix)]_vars

\* C32 witness: a position that had been opened and flattened at price 1
\* was reopened at price 4, its margin being the last deposit alone.
C32_Witness ==
    /\ OpenSucceeded
    /\ PriceOf(last.ix) = 4
    /\ positions[last.ix.user_position_account].is_active
    /\ positions[last.ix.user_position_account].size = last.ix.size
    /\ positions[last.ix.user_position_account].entry_price = 4
    /\ positions[last.ix.user_position_account].margin = last.ix.margin_amount
    /\ markets[last.ix.market_account].open_interest_long > 0
    /\ markets[last.ix.market_account].open_interest_short > 0

\* C33: a successful transition for a trader without a UserAccount creates
\* the record at the trader's derived user address with owner = the trader;
\* afterwards margin_balance = deposit - fee and the registry holds the new
\* position's address in its first slot and the default address elsewhere.
C33_UserAccountCreatedLazily ==
    [][(/\ last'.op = "open_position"
        /\ last'.kind = "Ok"
        /\ data_is_empty(AccountAt(users, last'.ix.user_account)))
       => LET ix   == last'.ix
              user == AccountAt(users', ix.user_account)
          IN  /\ ix.user_account = UserAddress(ix.user)
              /\ ~data_is_empty(user)
              /\ user.owner = ix.user
              /\ user.margin_balance
                    = ix.margin_amount - FeeOf(ix, markets[ix.market_account].fee_rate)
              /\ user.open_positions =
                    [i \in 1..RegistryCap |->
                       IF i = 1 THEN ix.user_position_account ELSE DefaultPubkey]]_vars

\* Whether p * 10^(e+8) is representable in the unsigned result type.
RescaledFits(feed) ==
    feed.exponent + 8 >= 0
        => feed.price <= I64_PATTERN_MAX \div (10^(feed.exponent + 8))

\* p * 10^(e+8), truncated toward zero when e < -8, on unbounded integers.
Rescaled(feed) ==
    IF feed.exponent + 8 >= 0 THEN feed.price * 10^(feed.exponent + 8)
    ELSE feed.price \div (10^(0 - (feed.exponent + 8)))

\* C34: for a feed with price p > 0 and exponent e the oracle adapter either
\* fails or returns exactly p * 10^(e+8) (truncated toward zero when e < -8),
\* never a wrapped value; with p <= 0 it fails with invalid data.
C34_NormalizationExact ==
    [][(last'.op = "open_position" /\ last'.at \notin BeforeOracle)
       => LET feed   == last'.ix.feed
              result == get_sol_price_for_trading(feed, last'.ix.now, MAX_AGE)
          IN  /\ feed.price <= 0
                   => ~result.ok /\ result.err = "InvalidAccountData"
              /\ (feed.price > 0 /\ result.ok)
                   => RescaledFits(feed) /\ result.v = Rescaled(feed)]_vars

\* C35: in every state reachable through initialize_market,
\* initialize_user_account and open_position every Market record has
\* initial_margin = 0 and fee_rate = 0, and no open_position has failed the
\* margin-sufficiency check.
C35_MarketsChargeNothing ==
    /\ \A a \in DOMAIN markets :
           ~data_is_empty(markets[a])
               => markets[a].initial_margin = 0 /\ markets[a].fee_rate = 0
    /\ ~(OpenDone /\ last.kind = "InsufficientFunds" /\ last.at = "margin")

\* C35 witness: an open_position was processed for a market that
\* initialize_market created, with both rates 0.
C35_Witness ==
    /\ OpenDone
    /\ ~data_is_empty(AccountAt(markets, last.ix.market_account))
    /\ markets[last.ix.market_account].initial_margin = 0
    /\ markets[last.ix.market_account].fee_rate = 0
    /\ markets[last.ix.market_account].max_leverage > 0

\* C36: every successful open_position satisfies
\* notional <= max_leverage * margin on unbounded integers: the integer
\* division of the leverage computation admits no position whose true
\* notional-to-margin ratio is above the market's maximum.
C36_LeverageBoundExact ==
    [][(last'.op = "open_position" /\ last'.kind = "Ok")
       => Abs(last'.ix.size) * PriceOf(last'.ix)
            <= markets[last'.ix.market_account].max_leverage
                 * last'.ix.margin_amount]_vars

\* The tokens held by the collateral vaults of the traded markets; the
\* vaults start empty and only open_position transfers into them.
VaultTokens == tokens[VaultAddress(Mint("usdc"), 0)].amount
                 + tokens[VaultAddress(Mint("usdc"), 1)].amount

\* The margin balances of all traders together.
RECURSIVE SumBalances(_)
SumBalances(addresses) ==
    IF addresses = {} THEN 0
    ELSE LET a == CHOOSE x \in addresses : TRUE
         IN  users[a].margin_balance + SumBalances(addresses \ {a})

\* C37: a trader's margin_balance is the sum of the margins of the
\* trader's successful transitions minus the sum of their fees: a successful
\* transition changes it by deposit - fee and a failed one leaves it; and
\* the balances together never exceed the tokens transferred into the
\* collateral vaults.
C37_BalanceIsDepositsMinusFees ==
    /\ [](SumBalances(DOMAIN users) <= VaultTokens)
    /\ [][last'.op = "open_position"
           => LET ix == last'.ix
                  f  == FeeOf(ix, markets[ix.market_account].fee_rate)
              IN  IF last'.kind = "Ok"
                  THEN BalanceOf(users', ix) = BalanceOf(users, ix) + ix.margin_amount - f
                  ELSE BalanceOf(users', ix) = BalanceOf(users, ix)]_vars

\* The balances together never exceed the tokens held by the vaults.
BalancesCovered == SumBalances(DOMAIN users) <= VaultTokens

\* Every occupied slot of every registry holds the same address after the
\* step as before it.
SlotsKept ==
    \A u \in DOMAIN users :
        ~data_is_empty(users[u])
            => /\ u \in DOMAIN users'
               /\ \A i \in DOMAIN users[u].open_positions :
                      users[u].open_positions[i] # DefaultPubkey
                          => users'[u].open_positions[i] = users[u].open_positions[i]

\* C38: no operation clears, moves or overwrites an occupied slot of a
\* registry (closing a position to Flat keeps its slot), and every
\* successful open_position acts on a position held in one of the ten slots,
\* so a trader never trades more than ten distinct markets.
C38_SlotsArePermanent ==
    [][/\ SlotsKept
       /\ (last'.op = "open_position" /\ last'.kind = "Ok")
              => SlotOf(RegistryOf(users', last'.ix), last'.ix.user_position_account) # 0]_vars

\* No step clears, moves or overwrites an occupied slot.
SlotsNeverFreed == [][SlotsKept]_vars

\* C39: every successful read of get_sol_price_for_trading returns a
\* strictly positive normalized price, so no successful open_position
\* creates, merges or flips a position at price 0.
C39_NormalizedPricePositive ==
    [][(last'.op = "open_position" /\ last'.at \notin BeforeOracle)
       => LET result == get_sol_price_for_trading(last'.ix.feed, last'.ix.now, MAX_AGE)
          IN  /\ result.ok => result.v > 0
              /\ last'.kind = "Ok"
                   => /\ result.ok
                      /\ result.v > 0
                      /\ (~ExistingPosition(last'.ix)
                            => positions'[last'.ix.user_position_account].entry_price > 0)]_vars

\* The smaller and the larger of two prices.
MinOf(a, b) == IF a <= b THEN a ELSE b

MaxOf(a, b) == IF a >= b THEN a ELSE b

\* C40: after every successful same-direction merge the new entry price
\* lies between the previous entry price and the current oracle price,
\* both included.
C40_MergedEntryBetweenPrices ==
    [][(/\ last'.op = "open_position" /\ last'.kind = "Ok"
        /\ SameDirectionAdd(last'.ix))
       => LET old   == positions[last'.ix.user_position_account]
              new   == positions'[last'.ix.user_position_account]
              price == get_sol_price_for_trading(last'.ix.feed, last'.ix.now, MAX_AGE).v
          IN  /\ MinOf(old.entry_price, price) <= new.entry_price
              /\ new.entry_price <= MaxOf(old.entry_price, price)]_vars

====
